---- MODULE Spec2Model ----
(***************************************************************************)
(* Daily Progress Tracker (src/1.4.3ReactTest/src1/App2.jsx, the cloud     *)
(* variant, and src/unnamed/part_000, the local-only variant).             *)
(*                                                                         *)
(* Conventions of the model                                                *)
(*   - a JavaScript string is the sequence of its UTF-16 code units;       *)
(*   - a byte array is a sequence of numbers 0..255;                       *)
(*   - a base64 string is the sequence of its characters, a character      *)
(*     being its 6-bit value 0..63, Pad (the "=" sign) or BadChar (any     *)
(*     character outside the base64 alphabet);                             *)
(*   - a call that may throw returns [ok, val, err]: ok = FALSE is a       *)
(*     raised error (a rejected promise) whose name is err;                *)
(*   - an instant is a number of hours since the epoch (UTC); a calendar   *)
(*     date "YYYY-MM-DD" is the number of the day since the epoch.         *)
(***************************************************************************)
EXTENDS Integers, Sequences, FiniteSets, TLC

VARIABLES
    now,        \* the clock: new Date(), Date.now()
    tz,         \* the time zone of the browser
    entries,    \* useState entries: the journal, newest first
    habits,     \* useState habits
    report,     \* what the last generateReport call returned, and when it ran
    exported,   \* the last CSV file handed to the browser: its text, of which rows
    supabase,   \* whether the Supabase client exists (both environment keys set)
    user,       \* useState user: NoUser or the id of the signed-in user
    passphrase, \* useState passphrase: NoPass is the empty field
    cryptoKeyRef,   \* cryptoKeyRef.current
    derived,    \* whether some deriveKey call has completed with a key
    derivations,    \* the deriveKey calls in flight
    uploads,    \* the uploadBackup calls in flight
    downloads,  \* the downloadBackup calls in flight
    backups,    \* the table progress_backups: one row per user id
    alert,      \* the last alert shown
    codec,      \* harness of encryptString / decryptString: one encrypt, one decrypt
    pomodoro,   \* useState pomodoro: running, mode, remaining
    pomoRef,    \* pomoRef.current: whether the interval it names is running
    stored,     \* localStorage under STORAGE_KEY: the text, or that there is none
    mount       \* the mount of the local-only App: effects to run, updates queued

timeVars == <<now, tz>>
journalVars == <<entries, habits>>
keyVars == <<passphrase, cryptoKeyRef, derived, derivations>>
cloudVars == <<supabase, user, keyVars, uploads, downloads, backups, alert>>
shellVars == <<pomodoro, pomoRef, stored, mount>>
vars == <<now, tz, entries, habits, report, exported, cloudVars, codec, shellVars>>

(***************************************************************************)
(* Bounds of the model.                                                    *)
(***************************************************************************)
MaxPlainLen == 2        \* longest plaintext drawn over the whole alphabet
MaxRunLen == 54         \* longest plaintext made of one repeated ASCII letter
NumKeys == 3            \* distinct derived keys
MaxSpreadArgs == 80     \* most arguments one call accepts (engine limit, scaled)
MaxDay == 4             \* the clock runs over the days 0..MaxDay
MaxHabits == 1          \* habits in the list
MaxEntries == 2         \* entries in the journal
NumUsers == 1           \* accounts that sign in
NumPass == 1            \* distinct non-empty passphrases
MaxTasks == 1           \* uploadBackup and downloadBackup calls in flight at once
MaxDerivations == 1     \* deriveKey calls in flight at once

(***************************************************************************)
(* Results of calls that may throw.                                        *)
(***************************************************************************)
Ok(v) == [ok |-> TRUE, val |-> v, err |-> ""]
Throw(e) == [ok |-> FALSE, val |-> <<>>, err |-> e]

\* Sums and concatenations over a long sequence are taken by halves.
RECURSIVE SumRange(_, _, _)
SumRange(s, lo, hi) ==
    IF lo > hi THEN 0
    ELSE IF lo = hi THEN s[lo]
    ELSE SumRange(s, lo, (lo + hi) \div 2) + SumRange(s, ((lo + hi) \div 2) + 1, hi)

SumTo(s, n) == SumRange(s, 1, n)

\* sum of the elements of s
SumSeq(s) == SumTo(s, Len(s))

IndexSumTo(s, n) == SumRange([i \in 1..n |-> i * s[i]], 1, n)

RECURSIVE FlattenRange(_, _, _)
FlattenRange(ss, lo, hi) ==
    IF lo > hi THEN <<>>
    ELSE IF lo = hi THEN ss[lo]
    ELSE FlattenRange(ss, lo, (lo + hi) \div 2)
             \o FlattenRange(ss, ((lo + hi) \div 2) + 1, hi)

\* the concatenation of the sequences of ss
Flatten(ss) == FlattenRange(ss, 1, Len(ss))

\* sum over i of i * s[i]
IndexSum(s) == IndexSumTo(s, Len(s))

Min(a, b) == IF a < b THEN a ELSE b
Max(a, b) == IF a > b THEN a ELSE b

\* the numbers of S in ascending order
RECURSIVE SortedSeq(_)
SortedSeq(S) ==
    IF S = {} THEN <<>>
    ELSE LET m == CHOOSE x \in S : \A y \in S : x <= y
         IN  <<m>> \o SortedSeq(S \ {m})

(***************************************************************************)
(* UTF-8: TextEncoder.encode and TextDecoder.decode.                       *)
(***************************************************************************)
IsHighSurrogate(c) == c >= 55296 /\ c <= 56319
IsLowSurrogate(c) == c >= 56320 /\ c <= 57343
Replacement == <<239, 191, 189>>     \* U+FFFD in UTF-8
ByteOrderMark == <<239, 187, 191>>   \* U+FEFF in UTF-8

Utf8Bytes(cp) ==
    IF cp < 128 THEN <<cp>>
    ELSE IF cp < 2048 THEN <<192 + (cp \div 64), 128 + (cp % 64)>>
    ELSE IF cp < 65536
        THEN <<224 + (cp \div 4096), 128 + ((cp \div 64) % 64), 128 + (cp % 64)>>
    ELSE <<240 + (cp \div 262144), 128 + ((cp \div 4096) % 64),
           128 + ((cp \div 64) % 64), 128 + (cp % 64)>>

\* the bytes TextEncoder.encode gives for the code unit at position i: the
\* code point of a surrogate pair at its high half and nothing at its low
\* half, U+FFFD for a lone surrogate
EncodedAt(s, i) ==
    IF IsHighSurrogate(s[i]) /\ i < Len(s) /\ IsLowSurrogate(s[i + 1])
        THEN Utf8Bytes(65536 + (s[i] - 55296) * 1024 + (s[i + 1] - 56320))
    ELSE IF IsLowSurrogate(s[i]) /\ i > 1 /\ IsHighSurrogate(s[i - 1]) THEN <<>>
    ELSE IF IsHighSurrogate(s[i]) \/ IsLowSurrogate(s[i]) THEN Replacement
    ELSE Utf8Bytes(s[i])

\* TextEncoder.encode: a surrogate pair is one code point, a lone surrogate is
\* replaced by U+FFFD.
TextEncode(s) == Flatten([i \in 1..Len(s) |-> EncodedAt(s, i)])

IsCont(b, i) == i <= Len(b) /\ b[i] >= 128 /\ b[i] <= 191

CodeUnitsOf(cp) ==
    IF cp < 65536 THEN <<cp>>
    ELSE <<55296 + ((cp - 65536) \div 1024), 56320 + ((cp - 65536) % 1024)>>

RECURSIVE Utf8Decode(_)
\* The decoder without the byte-order-mark step: a malformed sequence gives
\* U+FFFD and the decoder goes on with the next byte.
Utf8Decode(b) ==
    IF b = <<>> THEN <<>>
    ELSE IF b[1] < 128 THEN <<b[1]>> \o Utf8Decode(Tail(b))
    ELSE IF b[1] >= 194 /\ b[1] <= 223 /\ IsCont(b, 2)
        THEN CodeUnitsOf((b[1] - 192) * 64 + (b[2] - 128))
             \o Utf8Decode(SubSeq(b, 3, Len(b)))
    ELSE IF b[1] >= 224 /\ b[1] <= 239 /\ IsCont(b, 2) /\ IsCont(b, 3)
        THEN CodeUnitsOf((b[1] - 224) * 4096 + (b[2] - 128) * 64 + (b[3] - 128))
             \o Utf8Decode(SubSeq(b, 4, Len(b)))
    ELSE IF b[1] >= 240 /\ b[1] <= 244 /\ IsCont(b, 2) /\ IsCont(b, 3) /\ IsCont(b, 4)
        THEN CodeUnitsOf((b[1] - 240) * 262144 + (b[2] - 128) * 4096
                         + (b[3] - 128) * 64 + (b[4] - 128))
             \o Utf8Decode(SubSeq(b, 5, Len(b)))
    ELSE <<65533>> \o Utf8Decode(Tail(b))

\* new TextDecoder().decode(bytes): ignoreBOM is false, so a leading byte
\* order mark is dropped from the result.
TextDecode(b) ==
    IF Len(b) >= 3 /\ SubSeq(b, 1, 3) = ByteOrderMark
        THEN Utf8Decode(SubSeq(b, 4, Len(b)))
    ELSE Utf8Decode(b)

(***************************************************************************)
(* base64: btoa and atob.                                                  *)
(***************************************************************************)
Pad == 64
BadChar == 65

\* btoa: three bytes give four characters; one or two left-over bytes give
\* two or three characters and "=" up to four
Btoa(b) ==
    [k \in 1..(4 * ((Len(b) + 2) \div 3)) |->
        LET at == 3 * ((k - 1) \div 4)
            b1 == b[at + 1]
            b2 == IF at + 2 <= Len(b) THEN b[at + 2] ELSE 0
            b3 == IF at + 3 <= Len(b) THEN b[at + 3] ELSE 0
        IN  CASE (k - 1) % 4 = 0 -> b1 \div 4
              [] (k - 1) % 4 = 1 -> ((b1 % 4) * 16) + (b2 \div 16)
              [] (k - 1) % 4 = 2 -> IF at + 2 <= Len(b)
                                       THEN ((b2 % 16) * 4) + (b3 \div 64)
                                    ELSE Pad
              [] OTHER -> IF at + 3 <= Len(b) THEN b3 % 64 ELSE Pad]

\* groups of four characters give three bytes; two left-over characters give
\* one byte and three give two, the bits beyond the last whole byte dropped
DecodeSextets(s) ==
    [k \in 1..((3 * (Len(s) \div 4)) + Max(0, (Len(s) % 4) - 1)) |->
        LET at == 4 * ((k - 1) \div 3)
            c1 == s[at + 1]
            c2 == s[at + 2]
            c3 == s[at + 3]
            c4 == s[at + 4]
        IN  CASE (k - 1) % 3 = 0 -> (c1 * 4) + (c2 \div 16)
              [] (k - 1) % 3 = 1 -> ((c2 % 16) * 16) + (c3 \div 4)
              [] OTHER -> ((c3 % 4) * 64) + c4]

\* the string with up to two trailing "=" removed when its length is a
\* multiple of four
StripPad(s) ==
    IF Len(s) % 4 = 0 /\ Len(s) > 0 /\ s[Len(s)] = Pad
        THEN IF s[Len(s) - 1] = Pad THEN SubSeq(s, 1, Len(s) - 2)
             ELSE SubSeq(s, 1, Len(s) - 1)
    ELSE s

\* atob: the forgiving-base64 decode
Atob(s) ==
    LET t == StripPad(s) IN
    IF Len(t) % 4 = 1 \/ \E i \in 1..Len(t) : t[i] > 63
        THEN Throw("InvalidCharacterError")
    ELSE Ok(DecodeSextets(t))

(***************************************************************************)
(* AES-GCM of crypto.subtle, as an ideal authenticated cipher over bytes.  *)
(* A key is a positive number (NoKey is cryptoKeyRef.current = null). The  *)
(* ciphertext is the masked plaintext followed by a TagLen-byte tag over   *)
(* key, nonce and masked plaintext; decryption recomputes the tag and      *)
(* rejects on a mismatch, as the real cipher does (there: up to a          *)
(* negligible forgery probability).                                        *)
(***************************************************************************)
NoKey == 0
IvLen == 12
TagLen == 16
TagModulus == 251

GcmMask(key, ivSum, i) == ((key * 17) + ivSum + (7 * i)) % 256

\* byte j of the tag: j * key + Len(x) + the sum over i of (i + j) * x[i],
\* x the nonce followed by the masked plaintext
GcmTag(key, iv, body) ==
    LET x == iv \o body
        plain == SumSeq(x)
        indexed == IndexSum(x)
    IN  [j \in 1..TagLen |-> ((j * key) + Len(x) + indexed + (j * plain)) % TagModulus]

GcmEncrypt(key, iv, pt) ==
    LET ivSum == SumSeq(iv)
        body == [i \in 1..Len(pt) |-> (pt[i] + GcmMask(key, ivSum, i)) % 256]
    IN  body \o GcmTag(key, iv, body)

\* a cipher without authentication, to compare with: decryption does not
\* look at the tag
GcmDecryptUnauthenticated(key, iv, ct) ==
    IF key = NoKey THEN Throw("TypeError")
    ELSE IF Len(ct) < TagLen \/ Len(iv) = 0 THEN Throw("OperationError")
    ELSE LET body == SubSeq(ct, 1, Len(ct) - TagLen)
             ivSum == SumSeq(iv)
         IN  Ok([i \in 1..Len(body) |-> (body[i] + 256 - GcmMask(key, ivSum, i)) % 256])

\* crypto.subtle.decrypt({name: "AES-GCM", iv}, key, ct)
GcmDecrypt(key, iv, ct) ==
    IF key = NoKey THEN Throw("TypeError")
    ELSE IF Len(ct) < TagLen \/ Len(iv) = 0 THEN Throw("OperationError")
    ELSE LET body == SubSeq(ct, 1, Len(ct) - TagLen)
             tag == SubSeq(ct, Len(ct) - TagLen + 1, Len(ct))
             ivSum == SumSeq(iv)
         IN  IF tag # GcmTag(key, iv, body) THEN Throw("OperationError")
             ELSE Ok([i \in 1..Len(body) |->
                          (body[i] + 256 - GcmMask(key, ivSum, i)) % 256])

(***************************************************************************)
(* encryptString and decryptString.  The nonce that encryptString draws    *)
(* with crypto.getRandomValues is the parameter iv.                        *)
(***************************************************************************)
\* String.fromCharCode(...combined): one argument per byte, a RangeError
\* beyond the engine's limit on the arguments of a call
FromCharCodeSpread(combined) ==
    IF Len(combined) > MaxSpreadArgs THEN Throw("RangeError") ELSE Ok(combined)

encryptString(key, iv, plaintext) ==
    IF key = NoKey THEN Throw("TypeError")
    ELSE LET ct == GcmEncrypt(key, iv, TextEncode(plaintext))
             combined == iv \o ct
             chars == FromCharCodeSpread(combined)
         IN  IF ~chars.ok THEN chars ELSE Ok(Btoa(chars.val))

decryptString(key, dataB64) ==
    LET raw == Atob(dataB64) IN
    IF ~raw.ok THEN raw
    ELSE LET iv == SubSeq(raw.val, 1, Min(IvLen, Len(raw.val)))
             ct == SubSeq(raw.val, Len(iv) + 1, Len(raw.val))
             pt == GcmDecrypt(key, iv, ct)
         IN  IF ~pt.ok THEN pt ELSE Ok(TextDecode(pt.val))

(***************************************************************************)
(* Dates.  new Date(), toISOString, getDate/setDate and new Date(string).  *)
(* A time zone is [before, after, at]: local time is UTC + before hours    *)
(* until the instant at, and UTC + after hours from then on (a daylight    *)
(* saving transition; before = after is a zone without one).               *)
(***************************************************************************)
HoursPerDay == 24
NoDate == -1

\* d.toISOString().slice(0, 10): the UTC calendar date of the instant
IsoDate(t) == t \div HoursPerDay

\* new Date("YYYY-MM-DD"): a date-only string is midnight UTC of that date
ParseDate(d) == d * HoursPerDay

LocalTime(zone, t) == t + (IF t < zone.at THEN zone.before ELSE zone.after)

\* the instant of a local time: a local time that happens twice or not at
\* all around the transition is read with the offset in force before it
UtcOfLocal(zone, w) ==
    IF w - zone.before < zone.at THEN w - zone.before
    ELSE IF w - zone.after >= zone.at THEN w - zone.after
    ELSE w - zone.before

\* d.setDate(d.getDate() - n): n calendar days back on the local calendar,
\* the local time of day kept
SetDateBack(zone, t, n) == UtcOfLocal(zone, LocalTime(zone, t) - n * HoursPerDay)

\* no transition; clocks forward one hour on day 2 at 07:00 UTC (02:00 local
\* becomes 03:00); clocks back one hour on day 2 at 06:00 UTC
Zones ==
    { [before |-> 0, after |-> 0, at |-> 0],
      [before |-> -5, after |-> -4, at |-> 2 * HoursPerDay + 7],
      [before |-> -4, after |-> -5, at |-> 2 * HoursPerDay + 6] }

Instants == 0..((MaxDay + 1) * HoursPerDay - 1)

Range(s) == {s[i] : i \in 1..Len(s)}

(***************************************************************************)
(* Habits: calculateStreak and markHabitLocal.                             *)
(***************************************************************************)
RECURSIVE StreakWalk(_, _, _, _)
\* the while loop of calculateStreak, cursor being the Date it walks back
StreakWalk(days, cursor, zone, streak) ==
    IF IsoDate(cursor) \in days
        THEN StreakWalk(days, SetDateBack(zone, cursor, 1), zone, streak + 1)
    ELSE streak

calculateStreak(history, t, zone) == StreakWalk(Range(history), t, zone, 0)

RECURSIVE WalkTests(_, _, _, _)
\* the days.has(...) tests the while loop of calculateStreak evaluates, the
\* one that ends the loop included
WalkTests(days, cursor, zone, tests) ==
    IF IsoDate(cursor) \in days
        THEN WalkTests(days, SetDateBack(zone, cursor, 1), zone, tests + 1)
    ELSE tests + 1

\* what markHabitLocal's map callback returns for one habit
\* hb.history || []
HistoryOf(hb) == IF "history" \in DOMAIN hb THEN hb.history ELSE <<>>

\* { ...hb, history, streak, last_completed: date }
WithMark(hb, history, streak, date) ==
    [f \in DOMAIN hb \cup {"history", "streak", "last_completed"} |->
        IF f = "history" THEN history
        ELSE IF f = "streak" THEN streak
        ELSE IF f = "last_completed" THEN date
        ELSE hb[f]]

\* a faulty callback, to compare with: it does not look whether the date is
\* in the history already
MarkedHabitWithoutIncludes(hb, habitId, t, zone) ==
    IF hb.id # habitId THEN hb
    ELSE WithMark(hb, Append(HistoryOf(hb), IsoDate(t)),
                  calculateStreak(Append(HistoryOf(hb), IsoDate(t)), t, zone),
                  IsoDate(t))

MarkedHabit(hb, habitId, t, zone) ==
    IF hb.id # habitId THEN hb
    ELSE IF IsoDate(t) \in Range(HistoryOf(hb)) THEN hb
    ELSE WithMark(hb, Append(HistoryOf(hb), IsoDate(t)),
                  calculateStreak(Append(HistoryOf(hb), IsoDate(t)), t, zone),
                  IsoDate(t))

markHabitLocal(h, habitId, t, zone) ==
    [i \in 1..Len(h) |-> MarkedHabit(h[i], habitId, t, zone)]

(***************************************************************************)
(* Entries.  A numeric form field is [kind, val]: kind "num" is text that  *)
(* reads as the number val, "empty" is the empty field, "text" is any      *)
(* other text.  A text field, a tag, a note is the sequence of its code    *)
(* units.  A decimal result (toFixed) is kept as the whole number of its   *)
(* last digit: 33.3 is 333 tenths.                                         *)
(***************************************************************************)
Num(n) == [kind |-> "num", val |-> n]
EmptyField == [kind |-> "empty", val |-> 0]
TextField == [kind |-> "text", val |-> 0]

\* Number(v) || dflt: Number("") is 0 and Number of other text is NaN, both
\* falsy like the number 0
NumberOr(v, dflt) == IF v.kind = "num" /\ v.val # 0 THEN v.val ELSE dflt

RECURSIVE Filter(_, _)
\* Array.prototype.filter with the predicate given as the set of kept values
Filter(s, keep) ==
    IF s = <<>> THEN <<>>
    ELSE (IF Head(s) \in keep THEN <<Head(s)>> ELSE <<>>) \o Filter(Tail(s), keep)

Comma == 44
Quote == 34

\* the white space String.prototype.trim removes (of the code units the
\* model types: tab, line feed, carriage return, space, no-break space)
WhiteSpace == {9, 10, 13, 32, 160}

RECURSIVE Split(_, _)
\* text.split(sep) for a separator of one code unit
Split(text, sep) ==
    IF \A i \in 1..Len(text) : text[i] # sep THEN <<text>>
    ELSE LET i == CHOOSE k \in 1..Len(text) :
                      text[k] = sep /\ \A j \in 1..(k - 1) : text[j] # sep
         IN  <<SubSeq(text, 1, i - 1)>> \o Split(SubSeq(text, i + 1, Len(text)), sep)

Trim(text) ==
    LET kept == {i \in 1..Len(text) : text[i] \notin WhiteSpace}
    IN  IF kept = {} THEN <<>>
        ELSE SubSeq(text, CHOOSE i \in kept : \A j \in kept : i <= j,
                          CHOOSE i \in kept : \A j \in kept : j <= i)

\* form.tags.split(",").map((t) => t.trim()).filter(Boolean)
SplitTags(text) ==
    LET pieces == Split(text, Comma)
        trimmed == [i \in 1..Len(pieces) |-> Trim(pieces[i])]
    IN  Filter(trimmed, Range(trimmed) \ {<<>>})

getEmptyForm(t) ==
    [date |-> IsoDate(t), plannedTasks |-> EmptyField, completedTasks |-> EmptyField,
     tasksNotes |-> <<>>, wins |-> <<>>, challenges |-> <<>>, mood |-> Num(3),
     tags |-> <<>>, minutesFocused |-> EmptyField]

\* the newEntry object of addEntry, made at the instant t from the form
NewEntry(t, form) ==
    [id |-> t, date |-> form.date,
     plannedTasks |-> NumberOr(form.plannedTasks, 0),
     completedTasks |-> NumberOr(form.completedTasks, 0),
     tasksNotes |-> form.tasksNotes,
     wins |-> form.wins,
     challenges |-> form.challenges,
     mood |-> NumberOr(form.mood, 3),
     tags |-> SplitTags(form.tags),
     minutesFocused |-> NumberOr(form.minutesFocused, 0),
     createdAt |-> t]

\* a faulty addEntry, to compare with: the new entry goes to the end
addEntryAtEnd(es, e) == es \o <<e>>

addEntry(es, e) == <<e>> \o es

removeEntry(es, id) == Filter(es, {e \in Range(es) : e.id # id})

RECURSIVE SumOf(_, _)
\* entries.reduce((s, r) => s + (r[field] || 0), 0)
SumOf(es, field) == IF es = <<>> THEN 0 ELSE Head(es)[field] + SumOf(Tail(es), field)

Abs(x) == IF x < 0 THEN -x ELSE x

\* a faulty toFixed, to compare with: it drops the digits beyond the last
\* one instead of rounding
ToFixedTruncating(n, d, scale) ==
    LET q == (Abs(n) * scale) \div Abs(d)
    IN  IF (n < 0) # (d < 0) THEN -q ELSE q

\* (n / d).toFixed(digits) as a whole number of units of 1/scale, scale being
\* 10^digits: the nearest one, a tie going away from zero
ToFixed(n, d, scale) ==
    LET q == (2 * Abs(n) * scale + Abs(d)) \div (2 * Abs(d))
    IN  IF (n < 0) # (d < 0) THEN -q ELSE q

Null == [null |-> TRUE, val |-> 0]
Value(v) == [null |-> FALSE, val |-> v]

\* s.slice(0, n), [...s].reverse() and s.slice(-n)
Take(s, n) == SubSeq(s, 1, Min(n, Len(s)))
Reverse(s) == [i \in 1..Len(s) |-> s[Len(s) + 1 - i]]
LastN(s, n) == SubSeq(s, Max(1, Len(s) - n + 1), Len(s))

TrendWindow == 60
TrendLen == 30
TrendPoint(r) == [date |-> r.date, completed |-> r.completedTasks]

\* a faulty trend, to compare with: the window cut after the reversal takes
\* the oldest entries of the window
TrendOfOldest(es) ==
    LET window == Reverse(Take(es, TrendWindow))
    IN  Take([i \in 1..Len(window) |-> TrendPoint(window[i])], TrendLen)

\* analytics.trend
Trend(es) ==
    LET window == Reverse(Take(es, TrendWindow))
    IN  LastN([i \in 1..Len(window) |-> TrendPoint(window[i])], TrendLen)

\* the trend of the local-storage variant of the app
TrendLocal(es) ==
    LET window == Reverse(Take(es, TrendLen))
    IN  LastN([i \in 1..Len(window) |-> TrendPoint(window[i])], TrendLen)

\* the analytics memo
Analytics(es) ==
    LET days == Len(es)
        totalPlanned == SumOf(es, "plannedTasks")
        totalCompleted == SumOf(es, "completedTasks")
    IN  [days |-> days,
         totalPlanned |-> totalPlanned,
         totalCompleted |-> totalCompleted,
         avgTasksPerDay |-> IF days # 0 THEN ToFixed(totalCompleted, days, 100) ELSE 0,
         successRate |-> IF totalPlanned # 0
                            THEN Value(ToFixed(totalCompleted * 100, totalPlanned, 10))
                         ELSE Null,
         avgMood |-> IF days # 0 THEN Value(ToFixed(SumOf(es, "mood"), days, 100))
                     ELSE Null,
         totalFocus |-> SumOf(es, "minutesFocused"),
         trend |-> Trend(es)]

(***************************************************************************)
(* Reports.                                                                *)
(***************************************************************************)
\* The model's days are the first days of a month that follows a month of
\* PrevMonthDays days, so d.setMonth(d.getMonth() - 1) is that many days back
\* on the local calendar.
PrevMonthDays == 28
SetMonthBack(zone, t) == UtcOfLocal(zone, LocalTime(zone, t) - PrevMonthDays * HoursPerDay)

ReportStart(range, t, zone) ==
    IF range = "weekly" THEN SetDateBack(zone, t, 6)
    ELSE IF range = "monthly" THEN SetMonthBack(zone, t)
    ELSE t

Selected(es, range, t, zone) ==
    Filter(es, {e \in Range(es) : /\ ParseDate(e.date) >= ReportStart(range, t, zone)
                                  /\ ParseDate(e.date) <= t})

(***************************************************************************)
(* topTags.  A property name that is the canonical text of an integer     *)
(* from 0 to 2^32 - 2 is an array index: an object lists these keys first, *)
(* in ascending numeric order.  Canonical numerals are compared by their   *)
(* length and then digit by digit.                                         *)
(***************************************************************************)
TopTagsLen == 5
Digits == 48..57
MaxArrayIndex == <<52, 50, 57, 52, 57, 54, 55, 50, 57, 52>>    \* "4294967294"

NumeralLess(a, b) ==
    \/ Len(a) < Len(b)
    \/ /\ Len(a) = Len(b)
       /\ \E i \in 1..Len(a) : a[i] < b[i] /\ \A j \in 1..(i - 1) : a[j] = b[j]

IsArrayIndex(text) ==
    /\ text # <<>>
    /\ \A i \in 1..Len(text) : text[i] \in Digits
    /\ Len(text) > 1 => text[1] # 48
    /\ ~NumeralLess(MaxArrayIndex, text)

RECURSIVE SortedNumerals(_)
\* the numerals of S in ascending numeric order
SortedNumerals(S) ==
    IF S = {} THEN <<>>
    ELSE LET m == CHOOSE x \in S : \A y \in S : ~NumeralLess(y, x)
         IN  <<m>> \o SortedNumerals(S \ {m})

RECURSIVE TagScan(_)
\* the tags in the order selected.forEach(r => r.tags.forEach(...)) visits them
TagScan(selected) ==
    IF selected = <<>> THEN <<>> ELSE Head(selected).tags \o TagScan(Tail(selected))

RECURSIVE FirstSeen(_)
\* the distinct elements of s in the order of their first occurrence
FirstSeen(s) ==
    IF s = <<>> THEN <<>>
    ELSE LET front == FirstSeen(SubSeq(s, 1, Len(s) - 1))
         IN  IF s[Len(s)] \in Range(front) THEN front ELSE Append(front, s[Len(s)])

\* counts[t] once the scan is over
TagCount(scan, t) == Cardinality({i \in 1..Len(scan) : scan[i] = t})

\* the order of Object.entries(counts): the integer keys in ascending
\* numeric order, then the other keys in the order they were created
ObjectKeys(scan) ==
    LET indices == {t \in Range(scan) : IsArrayIndex(t)}
    IN  SortedNumerals(indices) \o FirstSeen(Filter(scan, Range(scan) \ indices))

RECURSIVE SortByCount(_, _)
\* Array.prototype.sort((a, b) => b[1] - a[1]), a stable sort: the larger
\* count first, equal counts in the order they had
SortByCount(keys, scan) ==
    IF keys = <<>> THEN <<>>
    ELSE LET first == CHOOSE i \in 1..Len(keys) :
                          /\ \A j \in 1..Len(keys) :
                                 TagCount(scan, keys[j]) <= TagCount(scan, keys[i])
                          /\ \A j \in 1..(i - 1) :
                                 TagCount(scan, keys[j]) < TagCount(scan, keys[i])
         IN  <<keys[first]>>
                 \o SortByCount(SubSeq(keys, 1, first - 1)
                                    \o SubSeq(keys, first + 1, Len(keys)), scan)

\* the pairs [tag, count] of generateReport
topTags(selected) ==
    LET scan == TagScan(selected)
        sorted == SortByCount(ObjectKeys(scan), scan)
    IN  [i \in 1..Min(TopTagsLen, Len(sorted)) |-> <<sorted[i], TagCount(scan, sorted[i])>>]

\* a faulty chain of tests, to compare with: three separate ifs in place of
\* if / else if / else
RateAdviceSeparateTests(successRate) ==
    IF successRate.null THEN <<>>
    ELSE (IF successRate.val < 500 THEN <<"reduce-scope">> ELSE <<>>)
             \o (IF successRate.val < 800 THEN <<"remove-top-distraction">> ELSE <<>>)
             \o (IF successRate.val >= 800 THEN <<"raise-target">> ELSE <<>>)

\* the recommendation on the success rate; sr is the number read back from
\* the percentage text, in tenths of a percent
RateAdvice(successRate) ==
    IF successRate.null THEN <<>>
    ELSE IF successRate.val < 500 THEN <<"reduce-scope">>
    ELSE IF successRate.val < 800 THEN <<"remove-top-distraction">>
    ELSE <<"raise-target">>

\* s.minutesFocused || 0
FocusedOrZero(s) == IF "minutesFocused" \in DOMAIN s THEN s.minutesFocused ELSE 0

\* a faulty test, to compare with: an entry without minutesFocused is passed
\* over (s.minutesFocused < 20 is false for undefined)
FocusAdviceWithoutDefault(selected) ==
    IF \E i \in 1..Len(selected) :
           "minutesFocused" \in DOMAIN selected[i] /\ selected[i].minutesFocused < 20
        THEN <<"focus-block">>
    ELSE <<>>

\* the recommendation on the focused minutes
FocusAdvice(selected) ==
    IF \E i \in 1..Len(selected) : FocusedOrZero(selected[i]) < 20
        THEN <<"focus-block">>
    ELSE <<>>

generateReport(es, range, t, zone) ==
    LET selected == Selected(es, range, t, zone)
        totalPlanned == SumOf(selected, "plannedTasks")
        totalCompleted == SumOf(selected, "completedTasks")
        successRate == IF totalPlanned # 0
                          THEN Value(ToFixed(totalCompleted * 100, totalPlanned, 10))
                       ELSE Null
        rateAdvice == RateAdvice(successRate)
        focusAdvice == FocusAdvice(selected)
    IN  [range |-> range,
         totalDays |-> Len(selected),
         totalPlanned |-> totalPlanned,
         totalCompleted |-> totalCompleted,
         avgMood |-> IF Len(selected) # 0
                        THEN Value(ToFixed(SumOf(selected, "mood"), Len(selected), 100))
                     ELSE Null,
         topTags |-> topTags(selected),
         successRate |-> successRate,
         recommendations |-> rateAdvice \o focusAdvice,
         entries |-> selected]

(***************************************************************************)
(* JSON.stringify and JSON.parse of a backup.  The text of a document is   *)
(* kept as a sequence of code units, one per token:                        *)
(*     null                       "n"                                      *)
(*     an object                  "{" members "}"                          *)
(*     the member updatedAt       "u" instant                              *)
(*     the member entries         "e" count entry...                       *)
(*     the member habits          "h" count habit...                       *)
(*     an entry   id date plannedTasks completedTasks mood minutesFocused  *)
(*                count tag...                                             *)
(*     a habit    id streak last_completed count date...                   *)
(* a number n being the code unit n + NumberBias.  Any other text is not   *)
(* JSON.  A parsed document is [isNull, hasEntries, entries, hasHabits,    *)
(* habits].                                                                *)
(***************************************************************************)
NumberBias == 64
TokNull == 110
TokOpen == 123
TokClose == 125
TokUpdatedAt == 117
TokEntries == 101
TokHabits == 104

Enc(n) == n + NumberBias
Dec(c) == c - NumberBias

EncAll(s) == [i \in 1..Len(s) |-> Enc(s[i])]
DecAll(s) == [i \in 1..Len(s) |-> Dec(s[i])]

\* The members an entry may lack (an entry stored by an earlier version)
\* are announced by a token of their own, below the tokens of numbers.
TokTasksNotes == 1
TokWins == 2
TokChallenges == 3
TokCreatedAt == 4
Backslash == 92
LetterU == 117

Has(r, name) == name \in DOMAIN r

\* a surrogate that is not half of a pair
IsLoneSurrogate(text, i) ==
    \/ /\ IsHighSurrogate(text[i])
       /\ ~(i < Len(text) /\ IsLowSurrogate(text[i + 1]))
    \/ /\ IsLowSurrogate(text[i])
       /\ ~(i > 1 /\ IsHighSurrogate(text[i - 1]))

HexDigit(n) == IF n < 10 THEN 48 + n ELSE 87 + n
HexValue(c) == IF c >= 97 THEN c - 87 ELSE c - 48
Hex4(c) ==
    <<HexDigit(c \div 4096), HexDigit((c \div 256) % 16),
      HexDigit((c \div 16) % 16), HexDigit(c % 16)>>

\* a string of a document: the number of its characters, then the
\* characters, a quote and a backslash escaped with a backslash and a lone
\* surrogate written as \uXXXX
StringText(text) ==
    <<Enc(Len(text))>>
    \o Flatten([i \in 1..Len(text) |->
                   IF text[i] \in {Quote, Backslash} THEN <<Backslash, text[i]>>
                   ELSE IF IsLoneSurrogate(text, i) THEN <<Backslash, LetterU>> \o Hex4(text[i])
                   ELSE <<text[i]>>])

StringMember(e, name, tok) ==
    IF Has(e, name) THEN <<tok>> \o StringText(e[name]) ELSE <<>>

EntryText(e) ==
    <<Enc(e.id), Enc(e.date), Enc(e.plannedTasks), Enc(e.completedTasks),
      Enc(e.mood), Enc(e.minutesFocused), Enc(Len(e.tags))>>
    \o Flatten([i \in 1..Len(e.tags) |-> StringText(e.tags[i])])
    \o StringMember(e, "tasksNotes", TokTasksNotes)
    \o StringMember(e, "wins", TokWins)
    \o StringMember(e, "challenges", TokChallenges)
    \o (IF Has(e, "createdAt") THEN <<TokCreatedAt, Enc(e.createdAt)>> ELSE <<>>)

HabitText(h) ==
    <<Enc(h.id), Enc(h.streak), Enc(h.last_completed), Enc(Len(h.history))>>
    \o EncAll(h.history)

\* JSON.stringify({ entries, habits, updatedAt })
BackupText(es, hs, t) ==
    <<TokOpen, TokEntries, Enc(Len(es))>>
    \o Flatten([i \in 1..Len(es) |-> EntryText(es[i])])
    \o <<TokHabits, Enc(Len(hs))>>
    \o Flatten([i \in 1..Len(hs) |-> HabitText(hs[i])])
    \o <<TokUpdatedAt, Enc(t), TokClose>>

Parsed(v, pos) == [ok |-> TRUE, val |-> v, pos |-> pos]
NotParsed == [ok |-> FALSE, val |-> <<>>, pos |-> 0]

\* the value parsed, put in front of the values parsed after it
ConsParsed(v, rest) ==
    IF ~rest.ok THEN NotParsed ELSE Parsed(<<v>> \o rest.val, rest.pos)

\* the character at position pos of a string, and the position after it
CharAt(text, pos) ==
    IF text[pos] # Backslash THEN Parsed(text[pos], pos + 1)
    ELSE IF pos + 1 > Len(text) THEN NotParsed
    ELSE IF text[pos + 1] = LetterU /\ pos + 5 <= Len(text)
        THEN Parsed(4096 * HexValue(text[pos + 2]) + 256 * HexValue(text[pos + 3])
                        + 16 * HexValue(text[pos + 4]) + HexValue(text[pos + 5]),
                    pos + 6)
    ELSE Parsed(text[pos + 1], pos + 2)

RECURSIVE ParseChars(_, _, _)
ParseCharsAfter(text, count, char) ==
    IF ~char.ok THEN NotParsed
    ELSE ConsParsed(char.val, ParseChars(text, char.pos, count - 1))

\* count characters from position pos on
ParseChars(text, pos, count) ==
    IF count = 0 THEN Parsed(<<>>, pos)
    ELSE IF pos > Len(text) THEN NotParsed
    ELSE ParseCharsAfter(text, count, CharAt(text, pos))

\* a string at position pos of the text
ParseString(text, pos) ==
    IF pos > Len(text) \/ Dec(text[pos]) < 0 THEN NotParsed
    ELSE ParseChars(text, pos + 1, Dec(text[pos]))

RECURSIVE ParseStrings(_, _, _)
ParseStringsAfter(text, count, str) ==
    IF ~str.ok THEN NotParsed
    ELSE ConsParsed(str.val, ParseStrings(text, str.pos, count - 1))

ParseStrings(text, pos, count) ==
    IF count = 0 THEN Parsed(<<>>, pos)
    ELSE ParseStringsAfter(text, count, ParseString(text, pos))

\* the object read so far with one more member
WithMember(read, name, member) ==
    IF ~member.ok THEN NotParsed
    ELSE Parsed(read.val @@ (name :> member.val), member.pos)

\* the member announced by tok, when the text has it at the position
\* reached, added to the object read so far
ParseStringMember(text, read, name, tok) ==
    IF ~read.ok \/ read.pos > Len(text) \/ text[read.pos] # tok THEN read
    ELSE WithMember(read, name, ParseString(text, read.pos + 1))

ParseCreatedAt(text, read) ==
    IF ~read.ok \/ read.pos + 1 > Len(text) \/ text[read.pos] # TokCreatedAt THEN read
    ELSE Parsed(read.val @@ ("createdAt" :> Dec(text[read.pos + 1])), read.pos + 2)

\* the members an entry may lack, read one after the other
ParseMembers(text, plain) ==
    ParseCreatedAt(text,
        ParseStringMember(text,
            ParseStringMember(text,
                ParseStringMember(text, plain, "tasksNotes", TokTasksNotes),
                "wins", TokWins),
            "challenges", TokChallenges))

\* the entry at position pos of the text whose tags have been read
ParseEntryAfter(text, pos, tags) ==
    IF ~tags.ok THEN NotParsed
    ELSE ParseMembers(text, Parsed([id |-> Dec(text[pos]), date |-> Dec(text[pos + 1]),
                                    plannedTasks |-> Dec(text[pos + 2]),
                                    completedTasks |-> Dec(text[pos + 3]),
                                    mood |-> Dec(text[pos + 4]),
                                    tags |-> tags.val,
                                    minutesFocused |-> Dec(text[pos + 5])],
                                   tags.pos))

\* an entry at position pos of the text
ParseEntry(text, pos) ==
    IF pos + 6 > Len(text) \/ Dec(text[pos + 6]) < 0 THEN NotParsed
    ELSE ParseEntryAfter(text, pos, ParseStrings(text, pos + 7, Dec(text[pos + 6])))

ParseHabit(text, pos) ==
    IF pos + 3 > Len(text) THEN NotParsed
    ELSE LET n == Dec(text[pos + 3]) IN
         IF n < 0 \/ pos + 3 + n > Len(text) THEN NotParsed
         ELSE Parsed([id |-> Dec(text[pos]), history |-> DecAll(SubSeq(text, pos + 4, pos + 3 + n)),
                      streak |-> Dec(text[pos + 1]),
                      last_completed |-> Dec(text[pos + 2])],
                     pos + 4 + n)

RECURSIVE ParseEntries(_, _, _)
ParseEntriesAfter(text, count, e) ==
    IF ~e.ok THEN NotParsed
    ELSE ConsParsed(e.val, ParseEntries(text, e.pos, count - 1))

\* count entries from position pos on
ParseEntries(text, pos, count) ==
    IF count = 0 THEN Parsed(<<>>, pos)
    ELSE ParseEntriesAfter(text, count, ParseEntry(text, pos))

RECURSIVE ParseHabits(_, _, _)
ParseHabitsAfter(text, count, h) ==
    IF ~h.ok THEN NotParsed
    ELSE ConsParsed(h.val, ParseHabits(text, h.pos, count - 1))

ParseHabits(text, pos, count) ==
    IF count = 0 THEN Parsed(<<>>, pos)
    ELSE ParseHabitsAfter(text, count, ParseHabit(text, pos))

Document(isNull, hasEntries, es, hasHabits, hs) ==
    [isNull |-> isNull, hasEntries |-> hasEntries, entries |-> es,
     hasHabits |-> hasHabits, habits |-> hs]

\* the member entries, when the text has it at position pos
ParseEntriesMember(text, pos) ==
    IF pos + 1 <= Len(text) /\ text[pos] = TokEntries /\ Dec(text[pos + 1]) >= 0
        THEN ParseEntries(text, pos + 2, Dec(text[pos + 1]))
    ELSE NotParsed

ParseHabitsMember(text, pos) ==
    IF pos + 1 <= Len(text) /\ text[pos] = TokHabits /\ Dec(text[pos + 1]) >= 0
        THEN ParseHabits(text, pos + 2, Dec(text[pos + 1]))
    ELSE NotParsed

\* the object whose members entries and habits have been looked for
ParseObjectEnd(text, es, hs) ==
    LET p2 == IF hs.ok THEN hs.pos ELSE IF es.ok THEN es.pos ELSE 2
        p3 == IF p2 + 1 < Len(text) /\ text[p2] = TokUpdatedAt THEN p2 + 2 ELSE p2
    IN  IF p3 # Len(text) THEN Throw("SyntaxError")
        ELSE Ok(Document(FALSE, es.ok, es.val, hs.ok, hs.val))

ParseObject(text, es) ==
    ParseObjectEnd(text, es, ParseHabitsMember(text, IF es.ok THEN es.pos ELSE 2))

\* JSON.parse(text)
JSONparse(text) ==
    IF text = <<TokNull>> THEN Ok(Document(TRUE, FALSE, <<>>, FALSE, <<>>))
    ELSE IF Len(text) < 2 \/ text[1] # TokOpen \/ text[Len(text)] # TokClose
        THEN Throw("SyntaxError")
    ELSE ParseObject(text, ParseEntriesMember(text, 2))

(***************************************************************************)
(* The CSV export.  A date and an instant are written as the numbers the   *)
(* model keeps them as.                                                    *)
(***************************************************************************)
NoFile == [rows |-> <<>>, text |-> <<>>]
LineFeed == 10
Minus == 45

RECURSIVE NumberText(_)
\* String(n) of an integer
NumberText(n) ==
    IF n < 0 THEN <<Minus>> \o NumberText(-n)
    ELSE IF n < 10 THEN <<48 + n>>
    ELSE NumberText(n \div 10) \o <<48 + (n % 10)>>

RECURSIVE Join(_, _)
\* cells.join(sep)
Join(cells, sep) ==
    IF cells = <<>> THEN <<>>
    ELSE IF Len(cells) = 1 THEN cells[1]
    ELSE cells[1] \o sep \o Join(Tail(cells), sep)

\* text.replace(/"/g, '""')
DoubleQuotes(text) ==
    Flatten([i \in 1..Len(text) |-> IF text[i] = Quote THEN <<Quote, Quote>> ELSE <<text[i]>>])

\* `"${(r[name] || "").replace(/"/g, '""')}"`
QuotedCell(r, name) ==
    <<Quote>> \o DoubleQuotes(IF Has(r, name) THEN r[name] ELSE <<>>) \o <<Quote>>

\* `"${(r.tags || []).join(", ")}"`
TagsCell(r) == <<Quote>> \o Join(r.tags, <<Comma, 32>>) \o <<Quote>>

\* the names of the columns
Header ==
    <<<<100, 97, 116, 101>>,
      <<112, 108, 97, 110, 110, 101, 100, 84, 97, 115, 107, 115>>,
      <<99, 111, 109, 112, 108, 101, 116, 101, 100, 84, 97, 115, 107, 115>>,
      <<116, 97, 115, 107, 115, 78, 111, 116, 101, 115>>,
      <<119, 105, 110, 115>>,
      <<99, 104, 97, 108, 108, 101, 110, 103, 101, 115>>,
      <<109, 111, 111, 100>>,
      <<109, 105, 110, 117, 116, 101, 115, 70, 111, 99, 117, 115, 101, 100>>,
      <<116, 97, 103, 115>>,
      <<99, 114, 101, 97, 116, 101, 100, 65, 116>>>>

\* a row of toCSV
CsvRow(r) ==
    <<NumberText(r.date), NumberText(r.plannedTasks), NumberText(r.completedTasks),
      QuotedCell(r, "tasksNotes"), QuotedCell(r, "wins"), QuotedCell(r, "challenges"),
      NumberText(r.mood), NumberText(r.minutesFocused), TagsCell(r),
      IF Has(r, "createdAt") THEN NumberText(r.createdAt) ELSE <<>>>>

toCSV(es) ==
    LET rows == <<Header>> \o [i \in 1..Len(es) |-> CsvRow(es[i])]
    IN  Join([i \in 1..Len(rows) |-> Join(rows[i], <<Comma>>)], <<LineFeed>>)

(***************************************************************************)
(* Keys and backups.                                                       *)
(***************************************************************************)
NoUser == 0
NoPass == 0
PublicSalt == 0
Users == 1..NumUsers
Passphrases == 1..NumPass

\* a faulty salt, to compare with: the fixed string for every user
SaltAlwaysPublic(u) == PublicSalt

\* user?.id || "public-salt"
SaltOf(u) == IF u # NoUser THEN u ELSE PublicSalt

\* PBKDF2 (200000 rounds of SHA-256) to an AES-GCM key: a different key for
\* every pair of passphrase and salt
deriveKey(password, salt) == (password - 1) * (NumUsers + 1) + salt + 1

\* a row of progress_backups: the payload, and for the record the key it was
\* encrypted with, the payload as encryptString returned it, whether an
\* uploadBackup of this page wrote it and the entries and habits that
\* uploadBackup was called with
NoRow ==
    [present |-> FALSE, payload |-> <<>>, key |-> NoKey, sealed |-> <<>>,
     uploaded |-> FALSE, entries |-> <<>>, habits |-> <<>>]
Row(payload, key) ==
    [present |-> TRUE, payload |-> payload, key |-> key, sealed |-> payload,
     uploaded |-> FALSE, entries |-> <<>>, habits |-> <<>>]

\* the row the upsert of the uploadBackup invocation u stores
UploadedRow(u) ==
    [Row(u.payload, u.key) EXCEPT !.uploaded = TRUE, !.entries = u.entries,
                                  !.habits = u.habits]

\* JSON.parse of what decryptString returned, when it returned
ParseDecrypted(decrypted) ==
    IF decrypted.ok THEN JSONparse(decrypted.val) ELSE decrypted

\* a faulty restore, to compare with: it empties the journal before it
\* decrypts, and so loses it when the decryption or the parse fails
RestoreClearingFirst(key, data, es, hs) ==
    LET parsed == ParseDecrypted(decryptString(key, data))
    IN  IF ~parsed.ok \/ parsed.val.isNull
            THEN [entries |-> <<>>, habits |-> <<>>, alert |-> "Restore failed"]
        ELSE [entries |-> IF parsed.val.hasEntries THEN parsed.val.entries ELSE <<>>,
              habits |-> IF parsed.val.hasHabits THEN parsed.val.habits ELSE <<>>,
              alert |-> "Backup restored."]

\* what entries, habits and the alert are once the document is parsed, or
\* the decryption or the parse has thrown
Restored(parsed, es, hs) ==
    IF ~parsed.ok \/ parsed.val.isNull
        THEN [entries |-> es, habits |-> hs, alert |-> "Restore failed"]
    ELSE [entries |-> IF parsed.val.hasEntries THEN parsed.val.entries ELSE es,
          habits |-> IF parsed.val.hasHabits THEN parsed.val.habits ELSE hs,
          alert |-> "Backup restored."]

\* downloadBackup from the decryptString call on: what entries, habits and
\* the alert are afterwards
Restore(key, data, es, hs) ==
    Restored(ParseDecrypted(decryptString(key, data)), es, hs)

CloudIdle ==
    /\ user = NoUser
    /\ passphrase = NoPass
    /\ cryptoKeyRef = NoKey
    /\ derived = FALSE
    /\ derivations = {}
    /\ uploads = {}
    /\ downloads = {}
    /\ backups = [u \in Users |-> NoRow]
    /\ alert = ""

(***************************************************************************)
(* The Pomodoro timer.  The Start and Stop buttons set the state; the      *)
(* effect on [pomodoro.running] runs with the commit of the render that    *)
(* follows (a click is a discrete event: its render and its effects are    *)
(* flushed before the next task); the interval's callback sets the state   *)
(* with an updater.                                                        *)
(***************************************************************************)
WorkSeconds == 1500
BreakSeconds == 300

Stopped == [running |-> FALSE, mode |-> "work", remaining |-> WorkSeconds]
Started == [running |-> TRUE, mode |-> "work", remaining |-> WorkSeconds]

\* a faulty effect, to compare with: it returns no cleanup, and an interval
\* once set keeps firing
TimerEffectWithoutCleanup(was, is, ref) ==
    IF is = was THEN ref
    ELSE IF is THEN TRUE
    ELSE ref

\* whether the interval runs after the commit of a render in which
\* pomodoro.running went from was to is: when it changed, the cleanup of the
\* effect's last run clears the interval that run had set, and the effect
\* sets one when the timer is running
TimerEffect(was, is, ref) ==
    IF is = was THEN ref
    ELSE IF is THEN TRUE
    ELSE FALSE

\* the updater the interval's callback passes to setPomodoro
TickUpdate(p) ==
    IF p.remaining <= 1
        THEN LET nextMode == IF p.mode = "work" THEN "break" ELSE "work"
             IN  [p EXCEPT !.mode = nextMode,
                           !.remaining = IF nextMode = "work" THEN WorkSeconds
                                         ELSE BreakSeconds]
    ELSE [p EXCEPT !.remaining = p.remaining - 1]

\* localStorage has no item under STORAGE_KEY
NoItem == [present |-> FALSE, text |-> <<>>]

\* the local-only App is not being mounted
NotMounting == [effects |-> <<>>, updates |-> <<>>, strict |-> FALSE, raw |-> NoItem]

ShellIdle ==
    /\ pomodoro = Stopped
    /\ pomoRef = FALSE
    /\ stored = NoItem
    /\ mount = NotMounting

(***************************************************************************)
(* The clock and the habit list.                                           *)
(***************************************************************************)
Tick ==
    /\ now + 1 \in Instants
    /\ now' = now + 1
    /\ UNCHANGED <<tz, journalVars, report, exported, cloudVars, codec, shellVars>>

\* onMark in local mode: markHabitLocal(id, setHabits)
MarkHabitLocal ==
    /\ \E i \in 1..Len(habits) :
         habits' = markHabitLocal(habits, habits[i].id, now, tz)
    /\ UNCHANGED <<timeVars, entries, report, exported, cloudVars, codec, shellVars>>

\* a habit as the lazy initial state reads it from localStorage "dpt_habits":
\* marked on the days of S, none of them after today, the streak the one
\* computed when it was marked last, at hour h of that day
StoredHabit(S, h, zone) ==
    LET last == CHOOSE x \in S : \A y \in S : y <= x IN
    IF S = {} THEN [id |-> 0, history |-> <<>>, streak |-> 0, last_completed |-> NoDate]
    ELSE [id |-> 0, history |-> SortedSeq(S),
          streak |-> calculateStreak(SortedSeq(S), last * HoursPerDay + h, zone),
          last_completed |-> last]

\* onAdd in local mode: the new habit's id is Date.now().toString(), and two
\* clicks are never in the same millisecond
AddHabitLocal ==
    /\ Len(habits) < MaxHabits
    /\ \A i \in 1..Len(habits) : habits[i].id # now
    /\ habits' = Append(habits, [id |-> now, history |-> <<>>, streak |-> 0,
                                 last_completed |-> NoDate])
    /\ UNCHANGED <<timeVars, entries, report, exported, cloudVars, codec, shellVars>>

NoReport == [at |-> 0, result |-> generateReport(<<>>, "none", 0, [before |-> 0, after |-> 0, at |-> 0])]

CodecIdle ==
    [pc |-> "idle", key |-> NoKey, iv |-> <<>>, plaintext |-> <<>>,
     enc |-> Ok(<<>>), payload |-> <<>>, tampered |-> FALSE,
     decKey |-> NoKey, dec |-> Ok(<<>>)]

StreakInit ==
    /\ now \in Instants
    /\ tz \in Zones
    /\ habits \in {<<StoredHabit(S, h, tz)>> : S \in SUBSET (0..IsoDate(now)), h \in {0, 23}}
    /\ entries = <<>>
    /\ report = NoReport
    /\ exported = NoFile
    /\ ShellIdle
    /\ codec = CodecIdle
    /\ supabase = FALSE
    /\ CloudIdle

StreakNext == Tick \/ MarkHabitLocal

SpecStreak == StreakInit /\ [][StreakNext]_vars

\* the number of consecutive calendar days ending on day d that are all in S
RunLength(S, d) ==
    IF d \notin S THEN 0
    ELSE CHOOSE n \in 1..Cardinality(S) :
            /\ \A i \in 0..(n - 1) : d - i \in S
            /\ d - n \notin S

\* C6: for every history, calculateStreak is the number of consecutive
\* calendar days ending today that are all in the history, and 0 when today
\* is not in it.
C6_StreakIsRunEndingToday ==
    \A i \in 1..Len(habits) :
        calculateStreak(habits[i].history, now, tz)
            = RunLength(Range(habits[i].history), IsoDate(now))

\* C22: for every history the backward walk of calculateStreak ends, after
\* at most |history| + 1 membership tests.
C22_WalkWithinHistoryPlusOne ==
    \A i \in 1..Len(habits) :
        WalkTests(Range(habits[i].history), now, tz, 0) <= Len(habits[i].history) + 1

(***************************************************************************)
(* Marking among several habits: two habits of dpt_habits, the second one  *)
(* possibly a row fetched from the cloud table, which has no history.      *)
(***************************************************************************)
MarksFromDay == 2

\* a row of the habits table as fetchHabitsCloud sets it
CloudHabit(id) == [id |-> id, last_completed |-> NoDate]

MarksInit ==
    /\ now = MarksFromDay * HoursPerDay
    /\ tz \in Zones
    /\ entries = <<>>
    /\ \E second \in {[StoredHabit({}, 0, tz) EXCEPT !.id = 1], CloudHabit(1),
                       [StoredHabit({0, 1}, 0, tz) EXCEPT !.id = 1]} :
         habits = <<StoredHabit({}, 0, tz), second>>
    /\ report = NoReport
    /\ exported = NoFile
    /\ ShellIdle
    /\ codec = CodecIdle
    /\ supabase = FALSE
    /\ CloudIdle

MarksNext == MarkHabitLocal \/ Tick

SpecMarks == MarksInit /\ [][MarksNext]_vars

\* C26: a step changes the habits list only by appending today's date to
\* the history of one habit that did not have it, every other habit staying
\* as it was; marking a habit a second time on the same day gives the list
\* the first mark gave; no date is twice in a history.
C26_MarkIdempotentAndLocal ==
    [][/\ habits' # habits =>
             \E i \in 1..Len(habits) :
                 /\ Len(habits') = Len(habits)
                 /\ \A j \in 1..Len(habits) : j # i => habits'[j] = habits[j]
                 /\ IsoDate(now) \notin Range(HistoryOf(habits[i]))
                 /\ HistoryOf(habits'[i]) = Append(HistoryOf(habits[i]), IsoDate(now))
       /\ \A i \in 1..Len(habits) :
             LET once == markHabitLocal(habits, habits[i].id, now, tz)
             IN  markHabitLocal(once, habits[i].id, now, tz) = once
       /\ \A i \in 1..Len(habits') :
             \A m, n \in 1..Len(HistoryOf(habits'[i])) :
                 HistoryOf(habits'[i])[m] = HistoryOf(habits'[i])[n] => m = n]_vars

\* both habits marked on two days, the second one a row that had no history
C26_Witness ==
    /\ Len(habits) = 2
    /\ "streak" \in DOMAIN habits[2]
    /\ habits[2].last_completed = IsoDate(now)
    /\ Len(HistoryOf(habits[2])) = 2
    /\ Len(HistoryOf(habits[1])) = 2
    /\ habits[1].last_completed # IsoDate(now)

(***************************************************************************)
(* The Pomodoro timer on its own.                                          *)
(***************************************************************************)
\* the Start button
StartTimer ==
    /\ pomodoro' = Started
    /\ pomoRef' = TimerEffect(pomodoro.running, TRUE, pomoRef)
    /\ UNCHANGED <<timeVars, journalVars, report, exported, cloudVars, codec, stored, mount>>

\* the Stop button
StopTimer ==
    /\ pomodoro' = Stopped
    /\ pomoRef' = TimerEffect(pomodoro.running, FALSE, pomoRef)
    /\ UNCHANGED <<timeVars, journalVars, report, exported, cloudVars, codec, stored, mount>>

\* the interval fires, a second after it was set or fired last
IntervalTick ==
    /\ pomoRef
    /\ pomodoro' = TickUpdate(pomodoro)
    /\ pomoRef' = TimerEffect(pomodoro.running, pomodoro'.running, pomoRef)
    /\ UNCHANGED <<timeVars, journalVars, report, exported, cloudVars, codec, stored, mount>>

TimerInit ==
    /\ now = 0
    /\ tz \in {z \in Zones : z.before = z.after}
    /\ entries = <<>>
    /\ habits = <<>>
    /\ report = NoReport
    /\ exported = NoFile
    /\ ShellIdle
    /\ codec = CodecIdle
    /\ supabase = FALSE
    /\ CloudIdle

TimerNext == StartTimer \/ StopTimer \/ IntervalTick

SpecTimer == TimerInit /\ [][TimerNext]_vars

\* C24: in every state of the timer remaining is between 1 and 1500
\* seconds, at most 300 in a break, and a timer that is not running shows
\* work and 1500 seconds (no tick changes a stopped timer).
C24_TimerInvariant ==
    /\ pomodoro.remaining \in 1..1500
    /\ pomodoro.mode \in {"work", "break"}
    /\ pomodoro.mode = "break" => pomodoro.remaining <= 300
    /\ ~pomodoro.running =>
          pomodoro = [running |-> FALSE, mode |-> "work", remaining |-> 1500]

\* the timer stopped and started again, now in the last second of a break
C24_Witness ==
    /\ pomodoro.running
    /\ pomoRef
    /\ pomodoro.mode = "break"
    /\ pomodoro.remaining = 1

(***************************************************************************)
(* The codec on its own: one encryptString call, the payload possibly      *)
(* modified in storage or in transit, one decryptString call.              *)
(***************************************************************************)
Keys == 1..NumKeys

\* 'A', e-acute (2 bytes), euro sign (3 bytes), a high and a low surrogate,
\* U+FEFF
CodeUnits == {65, 233, 8364, 55357, 56832, 65279}

StringsUpTo(n) == UNION {[1..k -> CodeUnits] : k \in 0..n}
PlainTexts ==
    StringsUpTo(MaxPlainLen) \cup {[i \in 1..k |-> 65] : k \in 1..MaxRunLen}

\* values crypto.getRandomValues(new Uint8Array(12)) may return
IvChoices == {[i \in 1..IvLen |-> 0], [i \in 1..IvLen |-> (21 * i) % 256]}

\* a stored payload after one modification: one character replaced by
\* another one, or the last character lost
Tampers(s) ==
    {[s EXCEPT ![i] = (s[i] + d) % 64] : i \in {j \in 1..Len(s) : s[j] < Pad},
                                          d \in {1, 16}}
    \cup {[s EXCEPT ![i] = BadChar] : i \in {1} \cap (1..Len(s))}
    \cup {SubSeq(s, 1, Len(s) - 1) : i \in {1} \cap (1..Len(s))}

CodecInit ==
    /\ now = 0
    /\ tz \in {z \in Zones : z.before = z.after}
    /\ entries = <<>>
    /\ habits = <<>>
    /\ report = NoReport
    /\ exported = NoFile
    /\ ShellIdle
    /\ codec \in [pc : {"start"}, key : Keys, iv : {<<>>}, plaintext : PlainTexts,
               enc : {Ok(<<>>)}, payload : {<<>>}, tampered : {FALSE},
               decKey : {NoKey}, dec : {Ok(<<>>)}]
    /\ supabase = FALSE
    /\ CloudIdle

CodecEncrypt ==
    /\ codec.pc = "start"
    /\ \E iv \in IvChoices :
         LET r == encryptString(codec.key, iv, codec.plaintext) IN
         codec' = [codec EXCEPT !.pc = IF r.ok THEN "encrypted" ELSE "threw",
                                !.iv = iv, !.enc = r, !.payload = r.val]
    /\ UNCHANGED <<timeVars, journalVars, report, exported, cloudVars, shellVars>>

CodecTamper ==
    /\ codec.pc = "encrypted"
    /\ ~codec.tampered
    /\ \E t \in Tampers(codec.payload) :
         codec' = [codec EXCEPT !.payload = t, !.tampered = TRUE]
    /\ UNCHANGED <<timeVars, journalVars, report, exported, cloudVars, shellVars>>

CodecDecrypt ==
    /\ codec.pc = "encrypted"
    /\ \E k \in Keys :
         codec' = [codec EXCEPT !.pc = "decrypted", !.decKey = k,
                                !.dec = decryptString(k, codec.payload)]
    /\ UNCHANGED <<timeVars, journalVars, report, exported, cloudVars, shellVars>>

CodecNext == CodecEncrypt \/ CodecTamper \/ CodecDecrypt

SpecCodec == CodecInit /\ [][CodecNext]_vars

\* C8: for every key and every plaintext, encryptString returns base64 of
\* the 12-byte nonce followed by the ciphertext, and decryptString with the
\* same key returns the plaintext from it.
C8_RoundTrip ==
    /\ codec.pc # "threw"
    /\ codec.pc \in {"encrypted", "decrypted"} /\ ~codec.tampered =>
           /\ Atob(codec.payload).ok
           /\ Atob(codec.payload).val
                  = codec.iv \o GcmEncrypt(codec.key, codec.iv, TextEncode(codec.plaintext))
           /\ Len(codec.iv) = IvLen
    /\ codec.pc = "decrypted" /\ ~codec.tampered /\ codec.decKey = codec.key =>
           codec.dec = Ok(codec.plaintext)

(***************************************************************************)
(* The journal: addEntry, removeEntry, generateReport.                     *)
(***************************************************************************)
PlannedInputs == {EmptyField, TextField, Num(-3), Num(3)}
CompletedInputs == {EmptyField, Num(2)}
MinutesInputs == {EmptyField, Num(25)}

\* what is typed into the text fields: nothing; notes with quotes, a comma
\* and spaces around the tags ( x , "y",,2 ); a lone surrogate, a backslash
\* and the tags 10,9
TextInputs ==
    {[tasksNotes |-> <<>>, wins |-> <<>>, challenges |-> <<>>, tags |-> <<>>],
     [tasksNotes |-> <<72, 101, 32, 115, 97, 105, 100, 32, 34, 104, 105, 34>>,
      wins |-> <<34>>, challenges |-> <<97, 44, 98>>,
      tags |-> <<32, 120, 32, 44, 34, 121, 34, 44, 44, 50, 32>>],
     [tasksNotes |-> <<55357>>, wins |-> <<>>, challenges |-> <<92>>,
      tags |-> <<49, 48, 44, 57>>]}

\* the forms submitted at the instant t: the date field holds today's date
\* unless the user picked another one
Forms(t) ==
    {[getEmptyForm(t) EXCEPT !.date = date, !.plannedTasks = planned,
                             !.completedTasks = completed, !.minutesFocused = minutes,
                             !.tasksNotes = texts.tasksNotes, !.wins = texts.wins,
                             !.challenges = texts.challenges, !.tags = texts.tags] :
        date \in {IsoDate(t) - 1, IsoDate(t)},
        planned \in PlannedInputs, completed \in CompletedInputs,
        minutes \in MinutesInputs, texts \in TextInputs}

\* the form is submitted
AddEntry ==
    /\ Len(entries) < MaxEntries
    /\ \E form \in Forms(now) : entries' = addEntry(entries, NewEntry(now, form))
    /\ UNCHANGED <<timeVars, habits, report, exported, cloudVars, codec, shellVars>>

\* the Delete button of an entry, confirmed
RemoveEntry ==
    /\ \E i \in 1..Len(entries) : entries' = removeEntry(entries, entries[i].id)
    /\ UNCHANGED <<timeVars, habits, report, exported, cloudVars, codec, shellVars>>

\* a faulty export, to compare with: it reverses the array of the state in
\* place (entries.reverse()) to write the oldest entry first
ExportCSVReversingInPlace ==
    /\ exported' = [rows |-> Reverse(entries), text |-> toCSV(Reverse(entries))]
    /\ entries' = Reverse(entries)
    /\ UNCHANGED <<timeVars, habits, report, cloudVars, codec, shellVars>>

\* the Export CSV button: toCSV(entries) goes to the browser as a file
ExportCSV ==
    /\ exported' = [rows |-> entries, text |-> toCSV(entries)]
    /\ UNCHANGED <<timeVars, journalVars, report, cloudVars, codec, shellVars>>

\* downloadReportCSV(range)
DownloadReportCSV ==
    /\ \E range \in {"weekly", "monthly"} :
         LET r == generateReport(entries, range, now, tz)
         IN  /\ report' = [at |-> now, result |-> r]
             /\ exported' = [rows |-> r.entries, text |-> toCSV(r.entries)]
    /\ UNCHANGED <<timeVars, journalVars, cloudVars, codec, shellVars>>

GenerateReport ==
    /\ \E range \in {"weekly", "monthly"} :
         report' = [at |-> now, result |-> generateReport(entries, range, now, tz)]
    /\ UNCHANGED <<timeVars, journalVars, exported, cloudVars, codec, shellVars>>

(***************************************************************************)
(* generateReport on its own: a journal as it is read from localStorage,   *)
(* dated over the last eight days.                                         *)
(***************************************************************************)
PlainEntry(id, date, planned, completed, minutes) ==
    [id |-> id, date |-> date, plannedTasks |-> planned, completedTasks |-> completed,
     mood |-> 3, tags |-> <<>>, minutesFocused |-> minutes]

ListsUpTo(S, n) == UNION {[1..k -> S] : k \in 0..n}

ReportInit ==
    /\ now \in Instants
    /\ tz \in Zones
    /\ entries \in ListsUpTo({PlainEntry(0, d, 2, 1, 25) :
                                 d \in (IsoDate(now) - 7)..IsoDate(now)}, MaxEntries)
    /\ habits = <<>>
    /\ report = NoReport
    /\ exported = NoFile
    /\ ShellIdle
    /\ codec = CodecIdle
    /\ supabase = FALSE
    /\ CloudIdle

ReportNext == GenerateReport

SpecReport == ReportInit /\ [][ReportNext]_vars

\* C5: a weekly report, made at any time of day, selects the entry dated six
\* calendar days before the day of the report and does not select the entry
\* dated seven days before it (the calendar day being the UTC date, the one
\* getEmptyForm puts in the form).
C5_WeeklyWindowSixDaysBack ==
    report.result.range = "weekly" =>
        \A e \in Range(entries) :
            /\ e.date = IsoDate(report.at) - 6 => e \in Range(report.result.entries)
            /\ e.date = IsoDate(report.at) - 7 => e \notin Range(report.result.entries)

(***************************************************************************)
(* The analytics memo on its own: a journal as it is read from             *)
(* localStorage, entries deleted one by one.                               *)
(***************************************************************************)
MetricsInit ==
    /\ now = 0
    /\ tz \in {z \in Zones : z.before = z.after}
    /\ entries \in ListsUpTo({PlainEntry(id, 0, p, c, 25) :
                                 id \in 1..MaxEntries, p \in {-3, 0, 3, 16}, c \in {0, 1, 2}},
                             MaxEntries)
    /\ habits = <<>>
    /\ report = NoReport
    /\ exported = NoFile
    /\ ShellIdle
    /\ codec = CodecIdle
    /\ supabase = FALSE
    /\ CloudIdle

MetricsNext == RemoveEntry

SpecMetrics == MetricsInit /\ [][MetricsNext]_vars

\* C7: successRate is null exactly when totalPlanned is 0; otherwise it is
\* totalCompleted / totalPlanned * 100 to the nearest tenth: r tenths with
\* |1000 * totalCompleted / totalPlanned - r| <= 1/2.
C7_SuccessRateNullOrRounded ==
    LET a == Analytics(entries)
        p == SumOf(entries, "plannedTasks")
        c == SumOf(entries, "completedTasks")
    IN  /\ a.successRate.null <=> p = 0
        /\ p # 0 => 2 * Abs(1000 * c - a.successRate.val * p) <= Abs(p)

C7_Witness ==
    /\ Len(entries) = 2
    /\ SumOf(entries, "plannedTasks") = 16
    /\ SumOf(entries, "completedTasks") = 1
    /\ Analytics(entries).successRate = Value(63)

(***************************************************************************)
(* The journal on its own, from the empty journal: entries are added and   *)
(* deleted while the clock moves on.  Two forms submitted between two      *)
(* movements of the clock read the same Date.now().                        *)
(***************************************************************************)
JournalTicks == 2

JournalInit ==
    /\ now = (MaxDay + 1) * HoursPerDay - 1 - JournalTicks
    /\ tz \in {z \in Zones : z.before = z.after}
    /\ entries = <<>>
    /\ habits = <<>>
    /\ report = NoReport
    /\ exported = NoFile
    /\ ShellIdle
    /\ codec = CodecIdle
    /\ supabase = FALSE
    /\ CloudIdle

JournalNext == AddEntry \/ RemoveEntry \/ Tick

SpecJournal == JournalInit /\ [][JournalNext]_vars

\* the elements of s at the positions of S, in the order of s
Pick(s, S) == LET at == SortedSeq(S) IN [i \in 1..Len(at) |-> s[at[i]]]

C15_IdsAreUnique ==
    \A i, j \in 1..Len(entries) : entries[i].id = entries[j].id => i = j

\* C16: the plannedTasks, completedTasks and minutesFocused of every stored
\* entry are non-negative integers.
C16_CountsAreNonNegative ==
    \A i \in 1..Len(entries) :
        /\ entries[i].plannedTasks \in Nat
        /\ entries[i].completedTasks \in Nat
        /\ entries[i].minutesFocused \in Nat

(***************************************************************************)
(* The recommendations and the top tags of a report: a journal as it is    *)
(* read from localStorage, with entries of today and of a week ago, tagged *)
(* with integer-like tags and with other tags.                             *)
(***************************************************************************)
MaxTagged == 2

TaskTotals == {<<0, 0>>, <<10, 5>>, <<5, 4>>, <<3, 1>>, <<2500, 1249>>, <<-3, 2>>}

\* tags "w", "2", "10", "9", "02" and "a" to "f"
TagLists ==
    {<<>>, <<<<119>>, <<50>>>>, <<<<49, 48>>, <<57>>>>, <<<<48, 50>>, <<50>>, <<119>>, <<50>>>>,
     <<<<97>>, <<98>>, <<99>>, <<100>>, <<101>>, <<102>>, <<119>>>>}

TaggedEntry(date, totals, tags) ==
    [PlainEntry(0, date, totals[1], totals[2], 25) EXCEPT !.tags = tags]

AdviceInit ==
    /\ now \in {12, 7 * HoursPerDay + 12}
    /\ tz \in {z \in Zones : z.before = z.after}
    /\ entries \in ListsUpTo({TaggedEntry(d, totals, tags) :
                                 d \in {IsoDate(now) - 7, IsoDate(now)},
                                 totals \in TaskTotals, tags \in TagLists}, MaxTagged)
    /\ habits = <<>>
    /\ report = NoReport
    /\ exported = NoFile
    /\ ShellIdle
    /\ codec = CodecIdle
    /\ supabase = FALSE
    /\ CloudIdle

AdviceNext == GenerateReport

SpecAdvice == AdviceInit /\ [][AdviceNext]_vars

RateAdvices == {"reduce-scope", "remove-top-distraction", "raise-target"}

\* C11: a report whose selected entries have a non-zero totalPlanned carries
\* exactly one of the three success-rate recommendations, chosen by the
\* success rate the report shows (the percentage with one decimal): below 50
\* reduce-scope, from 50 and below 80 remove-top-distraction, from 80 on
\* raise-target; a report whose totalPlanned is zero carries none of them.
C11_OneRateAdvice ==
    report.result.range # "none" =>
        LET r == report.result
            p == SumOf(r.entries, "plannedTasks")
            c == SumOf(r.entries, "completedTasks")
            given == Filter(r.recommendations, RateAdvices)
        IN  /\ p = 0 => given = <<>>
            /\ p # 0 =>
                  /\ Len(given) = 1
                  /\ ~r.successRate.null
                  /\ 2 * Abs(1000 * c - r.successRate.val * p) <= Abs(p)
                  /\ given[1] = "reduce-scope" <=> r.successRate.val < 500
                  /\ given[1] = "remove-top-distraction" <=>
                         r.successRate.val >= 500 /\ r.successRate.val < 800
                  /\ given[1] = "raise-target" <=> r.successRate.val >= 800

\* planned 10, completed 5: the advice of 50 to 79
C11_Witness ==
    /\ report.result.range = "weekly"
    /\ report.result.totalPlanned = 10
    /\ report.result.totalCompleted = 5
    /\ Filter(report.result.recommendations, RateAdvices) = <<"remove-top-distraction">>

\* C12: the topTags of a report are the tags of the selected entries by
\* count, the larger count first, tags of equal count in the order in which
\* the scan of the selected entries first met them, cut to the first five;
\* for every tag, a tag that reads as an integer included.
C12_TopTagsFirstSeenOrder ==
    report.result.range # "none" =>
        LET scan == TagScan(report.result.entries)
            sorted == SortByCount(FirstSeen(scan), scan)
        IN  report.result.topTags =
                [i \in 1..Min(TopTagsLen, Len(sorted)) |->
                    <<sorted[i], TagCount(scan, sorted[i])>>]

(***************************************************************************)
(* The trend of the analytics memo: a journal of one entry a day as it is  *)
(* read from localStorage, the newest entry first, longer than the window  *)
(* of the trend.                                                           *)
(***************************************************************************)
MaxJournal == 62

\* n daily entries up to today; the completed tasks follow a cycle of the
\* given length, so that neighbouring entries differ
DailyJournal(n, today, cycle) ==
    [i \in 1..n |-> PlainEntry(n + 1 - i, today + 1 - i, 3, (n - i) % cycle, 25)]

TrendInit ==
    /\ now = 12
    /\ tz \in {z \in Zones : z.before = z.after}
    /\ entries \in {DailyJournal(n, IsoDate(now), cycle) : n \in 0..MaxJournal, cycle \in {3, 4}}
    /\ habits = <<>>
    /\ report = NoReport
    /\ exported = NoFile
    /\ ShellIdle
    /\ codec = CodecIdle
    /\ supabase = FALSE
    /\ CloudIdle

TrendNext == GenerateReport

SpecTrend == TrendInit /\ [][TrendNext]_vars

MaxStored == 2
TokArray == 91
TokArrayEnd == 93

\* JSON.stringify(entries)
EntriesText(es) ==
    <<TokArray, Enc(Len(es))>> \o Flatten([i \in 1..Len(es) |-> EntryText(es[i])])
        \o <<TokArrayEnd>>

\* the array whose elements have been read
ParsedArray(text, es) ==
    IF es.ok /\ es.pos = Len(text) THEN Ok(es.val) ELSE Throw("SyntaxError")

\* JSON.parse(raw) of a text that is an array of entries or not JSON
ParseEntriesText(text) ==
    IF Len(text) < 3 \/ text[1] # TokArray \/ text[Len(text)] # TokArrayEnd
           \/ Dec(text[2]) < 0
        THEN Throw("SyntaxError")
    ELSE ParsedArray(text, ParseEntries(text, 3, Dec(text[2])))

Item(text) == [present |-> TRUE, text |-> text]

\* entries a former session stored
StoredEntries ==
    {PlainEntry(1, 0, 3, 2, 25), PlainEntry(2, 1, 5, 4, 30)}
    \cup {NewEntry(3, [getEmptyForm(3) EXCEPT !.tasksNotes = texts.tasksNotes,
                                              !.wins = texts.wins,
                                              !.challenges = texts.challenges,
                                              !.tags = texts.tags]) : texts \in TextInputs}

\* what localStorage may hold under STORAGE_KEY at mount: nothing, the empty
\* string, a text that is not JSON, the entries a former session stored
StoredItems ==
    {NoItem, Item(<<>>), Item(<<120>>)}
    \cup {Item(EntriesText(es)) : es \in ListsUpTo(StoredEntries, MaxStored)}

\* the effects of the mount commit, as React runs them
MountEffects(strict) ==
    IF strict THEN <<"load", "persist", "load", "persist">> ELSE <<"load", "persist">>

\* the setEntries calls of one run of the load effect: none when there is no
\* item, when it is the empty string or when JSON.parse throws
Loaded(item) ==
    IF ~item.present \/ item.text = <<>> THEN <<>>
    ELSE IF ParseEntriesText(item.text).ok THEN <<ParseEntriesText(item.text).val>>
    ELSE <<>>

\* the effect without dependencies
LoadEffect ==
    /\ mount.effects # <<>>
    /\ Head(mount.effects) = "load"
    /\ mount' = [mount EXCEPT !.effects = Tail(mount.effects),
                              !.updates = mount.updates \o Loaded(stored)]
    /\ UNCHANGED <<timeVars, journalVars, report, exported, cloudVars, codec, pomodoro,
                   pomoRef, stored>>

\* the effect on [entries], with the entries of the render it belongs to
PersistEffect ==
    /\ mount.effects # <<>>
    /\ Head(mount.effects) = "persist"
    /\ stored' = Item(EntriesText(entries))
    /\ mount' = [mount EXCEPT !.effects = Tail(mount.effects)]
    /\ UNCHANGED <<timeVars, journalVars, report, exported, cloudVars, codec, pomodoro,
                   pomoRef>>

\* the render of the queued updates: each setEntries replaces the state, the
\* array is a new one and so the effect on [entries] runs again
Rerender ==
    /\ mount.effects = <<>>
    /\ mount.updates # <<>>
    /\ entries' = mount.updates[Len(mount.updates)]
    /\ mount' = [mount EXCEPT !.updates = <<>>, !.effects = <<"persist">>]
    /\ UNCHANGED <<timeVars, habits, report, exported, cloudVars, codec, pomodoro,
                   pomoRef, stored>>

MountInit ==
    /\ now = 0
    /\ tz \in {z \in Zones : z.before = z.after}
    /\ entries = <<>>
    /\ habits = <<>>
    /\ report = NoReport
    /\ exported = NoFile
    /\ codec = CodecIdle
    /\ supabase = FALSE
    /\ CloudIdle
    /\ pomodoro = Stopped
    /\ pomoRef = FALSE
    /\ stored \in StoredItems
    /\ \E strict \in BOOLEAN :
         mount = [effects |-> MountEffects(strict), updates |-> <<>>, strict |-> strict,
                  raw |-> stored]

MountNext == LoadEffect \/ PersistEffect \/ Rerender

SpecMount == MountInit /\ [][MountNext]_vars

\* the entries an item holds, none when it holds no array of entries
EntriesOf(item) ==
    IF item.present /\ ParseEntriesText(item.text).ok THEN ParseEntriesText(item.text).val
    ELSE <<>>

\* C25: mounting the local-only App never stores an empty list over stored
\* entries that are not empty, and once the mount has settled (no effect
\* left to run, no update left to render) the entries state is the entries
\* that were stored before the mount.
C25_MountKeepsStoredEntries ==
    [][/\ EntriesOf(stored) # <<>> => EntriesOf(stored') # <<>>
       /\ mount'.effects = <<>> /\ mount'.updates = <<>> /\ EntriesOf(mount'.raw) # <<>>
              => entries' = EntriesOf(mount'.raw)]_vars

(***************************************************************************)
(* The focus-block recommendation: a journal as it is read from            *)
(* localStorage, some of its entries without minutesFocused.               *)
(***************************************************************************)
MaxFocus == 2

FocusTotals == {<<0, 0>>, <<10, 5>>, <<5, 5>>}

\* the minutesFocused of a stored entry; NoMinutes stands for an entry that
\* has no such member
NoMinutes == 0 - 1000
FocusMinutes == {NoMinutes, 0 - 5, 0, 19, 20, 25}

FocusEntry(date, totals, minutes) ==
    LET e == PlainEntry(0, date, totals[1], totals[2], minutes)
    IN  IF minutes = NoMinutes
            THEN [f \in DOMAIN e \ {"minutesFocused"} |-> e[f]]
        ELSE e

FocusInit ==
    /\ now \in {12, 7 * HoursPerDay + 12}
    /\ tz \in {z \in Zones : z.before = z.after}
    /\ entries \in ListsUpTo({FocusEntry(d, totals, minutes) :
                                 d \in {IsoDate(now) - 7, IsoDate(now)},
                                 totals \in FocusTotals, minutes \in FocusMinutes},
                             MaxFocus)
    /\ habits = <<>>
    /\ report = NoReport
    /\ exported = NoFile
    /\ ShellIdle
    /\ codec = CodecIdle
    /\ supabase = FALSE
    /\ CloudIdle

FocusNext == GenerateReport

SpecFocus == FocusInit /\ [][FocusNext]_vars

\* C21: a report carries the focus-block recommendation exactly when one of
\* its selected entries has minutesFocused below 20, an entry without
\* minutesFocused counting as 0; it carries it once, as the last
\* recommendation, with nothing but a success-rate recommendation before it.
C21_FocusAdviceIffShortFocus ==
    report.result.range # "none" =>
        LET r == report.result
            short == \E i \in 1..Len(r.entries) :
                         \/ "minutesFocused" \notin DOMAIN r.entries[i]
                         \/ r.entries[i].minutesFocused < 20
            n == Len(r.recommendations)
            at == {i \in 1..n : r.recommendations[i] = "focus-block"}
        IN  /\ short <=> at # {}
            /\ at \subseteq {n}
            /\ \A i \in 1..n : i \notin at => r.recommendations[i] \in RateAdvices
            /\ r.successRate.null <=> Filter(r.recommendations, RateAdvices) = <<>>

\* a report over entries of which the only one short of 20 minutes is one
\* without minutesFocused: the focus-block recommendation follows the one on
\* the success rate
C21_Witness ==
    /\ report.result.range = "weekly"
    /\ Len(report.result.entries) = 2
    /\ \E i \in 1..2 : "minutesFocused" \notin DOMAIN report.result.entries[i]
    /\ \E i \in 1..2 : /\ "minutesFocused" \in DOMAIN report.result.entries[i]
                        /\ report.result.entries[i].minutesFocused >= 20
    /\ report.result.recommendations = <<"raise-target", "focus-block">>

(***************************************************************************)
(* Sign-in, the passphrase and the derive-key effect.                      *)
(***************************************************************************)
TaskCount == Cardinality(uploads) + Cardinality(downloads)

\* the effect on [passphrase, user], run with the values p and u of the
\* render that follows the change
DeriveKeyEffect(p, u) ==
    IF p = NoPass
        THEN /\ cryptoKeyRef' = NoKey
             /\ UNCHANGED derivations
    ELSE /\ Cardinality(derivations) < MaxDerivations
         /\ derivations' = derivations \cup {[pass |-> p, salt |-> SaltOf(u)]}
         /\ UNCHANGED cryptoKeyRef

SetPassphrase ==
    /\ \E p \in {NoPass} \cup Passphrases :
         /\ p # passphrase
         /\ passphrase' = p
         /\ DeriveKeyEffect(p, user)
    /\ UNCHANGED <<timeVars, journalVars, report, exported, supabase, user, derived,
                   uploads, downloads, backups, alert, codec, shellVars>>

\* signIn: the sign-in is refused and alerted, or it succeeds and the user is
\* set (as the auth listener sets it, too)
SignIn ==
    /\ supabase
    /\ user = NoUser
    /\ \/ /\ alert' = "Sign in failed"
          /\ UNCHANGED <<user, cryptoKeyRef, derivations>>
       \/ /\ \E u \in Users :
               /\ user' = u
               /\ DeriveKeyEffect(passphrase, u)
          /\ UNCHANGED alert
    /\ UNCHANGED <<timeVars, journalVars, report, exported, supabase, passphrase, derived,
                   uploads, downloads, backups, codec, shellVars>>

\* signOut, or the auth listener reporting the end of the session
SignOut ==
    /\ supabase
    /\ user # NoUser
    /\ user' = NoUser
    /\ DeriveKeyEffect(passphrase, NoUser)
    /\ UNCHANGED <<timeVars, journalVars, report, exported, supabase, passphrase, derived,
                   uploads, downloads, backups, alert, codec, shellVars>>

\* await deriveKey(passphrase, salt) returns
DeriveDone ==
    /\ \E d \in derivations :
         /\ derivations' = derivations \ {d}
         /\ cryptoKeyRef' = deriveKey(d.pass, d.salt)
    /\ derived' = TRUE
    /\ UNCHANGED <<timeVars, journalVars, report, exported, supabase, user, passphrase,
                   uploads, downloads, backups, alert, codec, shellVars>>

\* await deriveKey(passphrase, salt) throws
DeriveFailed ==
    /\ \E d \in derivations : derivations' = derivations \ {d}
    /\ cryptoKeyRef' = NoKey
    /\ UNCHANGED <<timeVars, journalVars, report, exported, supabase, user, passphrase, derived,
                   uploads, downloads, backups, alert, codec, shellVars>>

(***************************************************************************)
(* uploadBackup.                                                           *)
(***************************************************************************)
\* the button: the three guards, then the payload is built and encryptString
\* is called with the key held now
UploadBackup ==
    /\ IF ~supabase THEN alert' = "Supabase not configured" /\ UNCHANGED uploads
       ELSE IF user = NoUser THEN alert' = "Sign in first." /\ UNCHANGED uploads
       ELSE IF cryptoKeyRef = NoKey
           THEN alert' = "Enter a passphrase" /\ UNCHANGED uploads
       ELSE /\ TaskCount < MaxTasks
            /\ \E iv \in IvChoices :
                 uploads' = uploads \cup
                     {[pc |-> "encrypting", uid |-> user, key |-> cryptoKeyRef, iv |-> iv,
                       text |-> BackupText(entries, habits, now), payload |-> <<>>,
                       calls |-> 0, entries |-> entries, habits |-> habits]}
            /\ UNCHANGED alert
    /\ UNCHANGED <<timeVars, journalVars, report, exported, supabase, user, keyVars,
                   downloads, backups, codec, shellVars>>

\* a faulty upload, to compare with: it builds the payload after the await,
\* from the entries and habits of that moment
UploadEncryptedOfJournalThen ==
    /\ \E u \in uploads :
         /\ u.pc = "encrypting"
         /\ LET encrypted == encryptString(u.key, u.iv, BackupText(entries, habits, now)) IN
            IF encrypted.ok
                THEN /\ uploads' = (uploads \ {u}) \cup
                            {[u EXCEPT !.pc = "upserting", !.payload = encrypted.val,
                                       !.calls = u.calls + 1]}
                     /\ UNCHANGED alert
            ELSE /\ uploads' = uploads \ {u}
                 /\ alert' = "Upload failed"
    /\ UNCHANGED <<timeVars, journalVars, report, exported, supabase, user, keyVars,
                   downloads, backups, codec, shellVars>>

\* await encryptString returns or throws; on a return the upsert is sent
UploadEncrypted ==
    /\ \E u \in uploads :
         /\ u.pc = "encrypting"
         /\ LET encrypted == encryptString(u.key, u.iv, u.text) IN
            IF encrypted.ok
                THEN /\ uploads' = (uploads \ {u}) \cup
                            {[u EXCEPT !.pc = "upserting", !.payload = encrypted.val,
                                       !.calls = u.calls + 1]}
                     /\ UNCHANGED alert
            ELSE /\ uploads' = uploads \ {u}
                 /\ alert' = "Upload failed"
    /\ UNCHANGED <<timeVars, journalVars, report, exported, supabase, user, keyVars,
                   downloads, backups, codec, shellVars>>

\* a faulty end of the upload, to compare with: after an error it sends the
\* upsert once more
UploadDoneRetrying ==
    /\ \E u \in uploads :
         /\ u.pc = "upserting"
         /\ \E written \in BOOLEAN, error \in BOOLEAN :
              /\ written \/ error
              /\ backups' = IF written
                               THEN [backups EXCEPT ![u.uid] = UploadedRow(u)]
                            ELSE backups
              /\ IF error /\ u.calls < 2
                     THEN /\ uploads' = (uploads \ {u}) \cup
                                 {[u EXCEPT !.calls = u.calls + 1]}
                          /\ UNCHANGED alert
                 ELSE /\ uploads' = uploads \ {u}
                      /\ alert' = IF error THEN "Upload failed"
                                  ELSE "Encrypted backup uploaded."
    /\ UNCHANGED <<timeVars, journalVars, report, exported, supabase, user, keyVars,
                   downloads, codec, shellVars>>

\* await upsert returns: the row is written or not, and the answer is an
\* error or not (an error can follow a write whose answer was lost)
UploadDone ==
    /\ \E u \in uploads :
         /\ u.pc = "upserting"
         /\ uploads' = uploads \ {u}
         /\ \E written \in BOOLEAN, error \in BOOLEAN :
              /\ written \/ error
              /\ backups' = IF written
                               THEN [backups EXCEPT ![u.uid] = UploadedRow(u)]
                            ELSE backups
              /\ alert' = IF error THEN "Upload failed" ELSE "Encrypted backup uploaded."
    /\ UNCHANGED <<timeVars, journalVars, report, exported, supabase, user, keyVars,
                   downloads, codec, shellVars>>

(***************************************************************************)
(* downloadBackup.                                                         *)
(***************************************************************************)
\* a faulty download button, to compare with: it does not look at the key
DownloadBackupWithoutKeyGuard ==
    /\ IF ~supabase THEN alert' = "Supabase not configured" /\ UNCHANGED downloads
       ELSE IF user = NoUser THEN alert' = "Sign in first." /\ UNCHANGED downloads
       ELSE /\ TaskCount < MaxTasks
            /\ downloads' = downloads \cup
                   {[pc |-> "selecting", uid |-> user, key |-> NoKey, data |-> <<>>,
                     row |-> NoRow, calls |-> 1]}
            /\ UNCHANGED alert
    /\ UNCHANGED <<timeVars, journalVars, report, exported, supabase, user, keyVars,
                   uploads, backups, codec, shellVars>>

\* the button: the three guards, then the select is sent
DownloadBackup ==
    /\ IF ~supabase THEN alert' = "Supabase not configured" /\ UNCHANGED downloads
       ELSE IF user = NoUser THEN alert' = "Sign in first." /\ UNCHANGED downloads
       ELSE IF cryptoKeyRef = NoKey
           THEN alert' = "Enter a passphrase" /\ UNCHANGED downloads
       ELSE /\ TaskCount < MaxTasks
            /\ downloads' = downloads \cup
                   {[pc |-> "selecting", uid |-> user, key |-> NoKey, data |-> <<>>,
                     row |-> NoRow, calls |-> 1]}
            /\ UNCHANGED alert
    /\ UNCHANGED <<timeVars, journalVars, report, exported, supabase, user, keyVars,
                   uploads, backups, codec, shellVars>>

\* await select(...).single() returns: an error (the request failed, or the
\* user has no row), or the row, and then decryptString is called with the
\* key held now
DownloadFetched ==
    /\ \E d \in downloads :
         /\ d.pc = "selecting"
         /\ \/ /\ downloads' = downloads \ {d}
               /\ alert' = "Restore failed"
            \/ /\ backups[d.uid].present
               /\ downloads' = (downloads \ {d}) \cup
                      {[d EXCEPT !.pc = "decrypting", !.key = cryptoKeyRef,
                                 !.data = backups[d.uid].payload,
                                 !.row = backups[d.uid]]}
               /\ UNCHANGED alert
    /\ UNCHANGED <<timeVars, journalVars, report, exported, supabase, user, keyVars,
                   uploads, backups, codec, shellVars>>

\* await decryptString returns or throws, then JSON.parse, setEntries and
\* setHabits
DownloadDecrypted ==
    /\ \E d \in downloads :
         /\ d.pc = "decrypting"
         /\ downloads' = downloads \ {d}
         /\ LET r == Restore(d.key, d.data, entries, habits) IN
            /\ entries' = r.entries
            /\ habits' = r.habits
            /\ alert' = r.alert
    /\ UNCHANGED <<timeVars, report, exported, supabase, user, keyVars, uploads, backups, codec, shellVars>>

(***************************************************************************)
(* The rest of the world writing to progress_backups.                      *)
(***************************************************************************)
\* texts another writer may encrypt: not JSON, null, an object without
\* members, the backup of an empty journal
ForeignTexts ==
    { <<120>>, <<TokNull>>, <<TokOpen, TokClose>>,
      BackupText(<<>>, <<>>, 0) }

\* the rows another session of the account may store, by user
ForeignRows ==
    [u \in Users |->
        {Row(encryptString(deriveKey(pw, u), [i \in 1..IvLen |-> 0], text).val,
             deriveKey(pw, u)) : pw \in Passphrases, text \in ForeignTexts}]

\* another session of the account, with its own passphrase, stores a row
ForeignWrite ==
    /\ \E u \in Users :
         /\ ~backups[u].present
         /\ \E row \in ForeignRows[u] : backups' = [backups EXCEPT ![u] = row]
    /\ UNCHANGED <<timeVars, journalVars, report, exported, supabase, user, keyVars,
                   uploads, downloads, alert, codec, shellVars>>

\* the position of the last character that is not padding, in a payload
\* that btoa returned
LastChar(s) ==
    IF s[Len(s)] < Pad THEN Len(s)
    ELSE IF s[Len(s) - 1] < Pad THEN Len(s) - 1
    ELSE Len(s) - 2

\* a stored payload after one modification at one of its ends: the first
\* character replaced by one that is not of the alphabet, the last character
\* that is not padding replaced by the next one or by the 16th next, the
\* last character lost
EndTampers(s) ==
    LET last == LastChar(s) IN
    {[s EXCEPT ![1] = BadChar], SubSeq(s, 1, Len(s) - 1)}
    \cup {[s EXCEPT ![last] = (s[last] + d) % 64] : d \in {1, 16}}

\* the stored payload is modified in storage or in transit
RowTampered ==
    /\ \E u \in Users :
         /\ backups[u].present
         /\ backups[u].payload = backups[u].sealed
         /\ \E t \in EndTampers(backups[u].payload) :
              backups' = [backups EXCEPT ![u].payload = t]
    /\ UNCHANGED <<timeVars, journalVars, report, exported, supabase, user, keyVars,
                   uploads, downloads, alert, codec, shellVars>>


(***************************************************************************)
(* The habit list from the first use on: habits are added and marked in    *)
(* local mode while the days pass.                                         *)
(***************************************************************************)
HabitsInit ==
    /\ now = 0
    /\ tz \in Zones
    /\ entries = <<>>
    /\ habits = <<>>
    /\ report = NoReport
    /\ exported = NoFile
    /\ ShellIdle
    /\ codec = CodecIdle
    /\ supabase = FALSE
    /\ CloudIdle

HabitsNext == AddHabitLocal \/ MarkHabitLocal \/ Tick

SpecHabits == HabitsInit /\ [][HabitsNext]_vars

\* C2: in every reachable state each habit's cached streak equals
\* calculateStreak of its history, recomputed for the current day.
C2_CachedStreakIsCurrent ==
    \A i \in 1..Len(habits) :
        habits[i].streak = calculateStreak(habits[i].history, now, tz)

(***************************************************************************)
(* Backups: one browser session of the app with a journal already in       *)
(* localStorage, the account's row of progress_backups, and whatever else  *)
(* writes to that row.                                                     *)
(***************************************************************************)
BackupInit ==
    /\ now = 0
    /\ tz \in {z \in Zones : z.before = z.after}
    /\ entries = <<PlainEntry(1, 0, 3, 2, 25)>>
    /\ habits = <<StoredHabit({0}, 0, tz)>>
    /\ report = NoReport
    /\ exported = NoFile
    /\ ShellIdle
    /\ codec = CodecIdle
    /\ supabase \in BOOLEAN
    /\ CloudIdle

BackupNext ==
    \/ SetPassphrase
    \/ SignIn
    \/ SignOut
    \/ DeriveDone
    \/ DeriveFailed
    \/ UploadBackup
    \/ UploadEncrypted
    \/ UploadDone
    \/ DownloadBackup
    \/ DownloadFetched
    \/ DownloadDecrypted
    \/ ForeignWrite
    \/ RowTampered

SpecBackup == BackupInit /\ [][BackupNext]_vars

\* the downloadBackup invocations that take their last step
Restoring == {d \in downloads : d.pc = "decrypting" /\ d \notin downloads'}

\* C1: a step of downloadBackup changes entries or habits only when it is
\* the step after a successful select in which decryptString returns and
\* JSON.parse returns an object; in every other step of downloadBackup, the
\* failed ones included, entries and habits keep their values.
C1_RestoreAllOrNothing ==
    [][downloads' # downloads /\ journalVars' # journalVars =>
          \E d \in Restoring :
              /\ d.data = d.row.payload
              /\ decryptString(d.key, d.data).ok
              /\ JSONparse(decryptString(d.key, d.data).val).ok
              /\ ~JSONparse(decryptString(d.key, d.data).val).val.isNull
              /\ alert' = "Backup restored."]_vars

\* a restore has failed at JSON.parse, after the select and decryptString
\* succeeded, and the journal is still there
C1_Witness ==
    /\ alert = "Restore failed"
    /\ downloads = {}
    /\ Len(entries) = 1
    /\ Len(habits) = 1
    /\ \E u \in Users :
         /\ backups[u].present
         /\ decryptString(cryptoKeyRef, backups[u].payload).ok
         /\ ~JSONparse(decryptString(cryptoKeyRef, backups[u].payload).val).ok

\* C3: every encryptString or decryptString call of uploadBackup and
\* downloadBackup comes after a key derivation has completed; and when the
\* button is pressed while no derived key is held, the action alerts the
\* first thing that is missing (the configuration, the sign-in, the
\* passphrase: the passphrase whenever the other two are there) and starts
\* nothing: no encrypt, no decrypt, no remote call.
C3_NoCryptoBeforeDerivation ==
    /\ [](/\ uploads # {} \/ downloads # {} => derived
          /\ \A u \in uploads : u.key # NoKey)
    /\ [][(UploadBackup \/ DownloadBackup) /\ cryptoKeyRef = NoKey =>
            /\ uploads' = uploads
            /\ downloads' = downloads
            /\ backups' = backups
            /\ alert' = IF ~supabase THEN "Supabase not configured"
                        ELSE IF user = NoUser THEN "Sign in first."
                        ELSE "Enter a passphrase"]_vars

\* signed in, no key held, a button pressed: the passphrase is asked for
C3_Witness ==
    /\ supabase
    /\ user # NoUser
    /\ cryptoKeyRef = NoKey
    /\ derivations = {}
    /\ alert = "Enter a passphrase"
    /\ uploads = {}
    /\ downloads = {}

\* C4: an invocation of uploadBackup sends at most one upsert and an
\* invocation of downloadBackup at most one select; when the remote call
\* fails the invocation ends there with the failure alerted, and success is
\* alerted only when the row was written.
C4_AtMostOneRemoteCall ==
    /\ [](\A t \in uploads \cup downloads : t.calls <= 1)
    /\ [][/\ \A u \in uploads :
                u.pc = "upserting" /\ u \notin uploads' =>
                    /\ uploads' = uploads \ {u}
                    /\ \/ alert' = "Upload failed"
                       \/ /\ alert' = "Encrypted backup uploaded."
                          /\ backups'[u.uid] = UploadedRow(u)
          /\ \A d \in downloads :
                d.pc = "selecting" /\ d \notin downloads' =>
                    \/ downloads' = downloads \ {d} /\ alert' = "Restore failed"
                    \/ downloads' = (downloads \ {d}) \cup
                           {[d EXCEPT !.pc = "decrypting", !.key = cryptoKeyRef,
                                      !.data = backups[d.uid].payload,
                                      !.row = backups[d.uid]]}]_vars

\* an upload has failed at the upsert: nothing is in flight and no row is
\* stored
C4_Witness ==
    /\ alert = "Upload failed"
    /\ uploads = {}
    /\ downloads = {}
    /\ \A u \in Users : ~backups[u].present

\* C9 as stated: a restore that decrypts with a key other than the one the
\* row was encrypted with, or a payload other than the one encryptString
\* returned, alerts a restore failure.
C9_ModifiedPayloadFails ==
    [][\A d \in Restoring :
          d.key # d.row.key \/ d.data # d.row.sealed =>
              /\ ~decryptString(d.key, d.data).ok
              /\ alert' = "Restore failed"]_vars

\* C9: decryptString with a key other than the one that encrypted the
\* payload, or of a payload that does not decode to the bytes encryptString
\* encoded (characters that atob rejects included), throws; downloadBackup
\* catches this, alerts a restore failure and leaves entries and habits.
C9_ModifiedBytesFail ==
    [][\A d \in Restoring :
          d.key # d.row.key \/ Atob(d.data) # Atob(d.row.sealed) =>
              /\ ~decryptString(d.key, d.data).ok
              /\ alert' = "Restore failed"
              /\ UNCHANGED journalVars]_vars

\* a restore has failed on a row whose payload no longer decodes to the
\* bytes that were stored, while the key held is the one it was encrypted
\* with
C9_Witness ==
    /\ alert = "Restore failed"
    /\ downloads = {}
    /\ \E u \in Users :
         /\ backups[u].present
         /\ backups[u].key = cryptoKeyRef
         /\ Atob(backups[u].payload) # Atob(backups[u].sealed)

\* C18: a key derivation that starts has as its salt the id of the user
\* signed in at that moment (the user of the render whose effect starts it),
\* and the fixed public salt when nobody is signed in.
C18_SaltIsCurrentUser ==
    [][\A d \in derivations' \ derivations :
           /\ user' \in Users => d.salt = user'
           /\ user' = NoUser => d.salt = PublicSalt]_vars

\* a derivation in flight for a signed-in user, salted with the user's id
C18_Witness ==
    /\ user \in Users
    /\ passphrase # NoPass
    /\ \E d \in derivations : d.pass = passphrase /\ d.salt = user

\* C23: whenever cryptoKeyRef holds a key, the passphrase is not empty and
\* the key is the one derived from the current passphrase and the current
\* salt (the id of the user signed in, the public salt when nobody is); and
\* no uploadBackup in flight encrypts with a key derived from the public
\* salt.
C23_KeyIsOfCurrentPassphraseAndSalt ==
    /\ cryptoKeyRef # NoKey =>
          /\ passphrase # NoPass
          /\ cryptoKeyRef = deriveKey(passphrase, SaltOf(user))
    /\ \A u \in uploads : \A p \in Passphrases : u.key # deriveKey(p, PublicSalt)

(***************************************************************************)
(* The read-only operations: a journal and a habit as they are read from   *)
(* localStorage, a user signed in and the key derived; reports are made,   *)
(* CSV files exported and backups uploaded.                                *)
(***************************************************************************)
MaxExported == 2

\* entries saved by addEntry at the instant 0 and two entries of an earlier
\* version, without notes
ExportEntries ==
    {NewEntry(0, f) : f \in {g \in Forms(0) : /\ g.date = 0
                                              /\ g.plannedTasks = Num(3)
                                              /\ g.completedTasks = Num(2)
                                              /\ g.minutesFocused = Num(25)}}
        \cup {PlainEntry(1, 0, 3, 2, 25), PlainEntry(2, 0, 5, 4, 30)}

ExportInit ==
    /\ now = 12
    /\ tz \in {z \in Zones : z.before = z.after}
    /\ entries \in ListsUpTo(ExportEntries, MaxExported)
    /\ habits \in {<<>>, <<StoredHabit({0}, 0, tz)>>}
    /\ report = NoReport
    /\ exported = NoFile
    /\ ShellIdle
    /\ codec = CodecIdle
    /\ supabase = TRUE
    /\ user \in Users
    /\ passphrase \in Passphrases
    /\ cryptoKeyRef = deriveKey(passphrase, SaltOf(user))
    /\ derived = TRUE
    /\ derivations = {}
    /\ uploads = {}
    /\ downloads = {}
    /\ backups = [u \in Users |-> NoRow]
    /\ alert = ""

ExportNext ==
    \/ GenerateReport
    \/ ExportCSV
    \/ DownloadReportCSV
    \/ UploadBackup
    \/ UploadEncrypted
    \/ UploadDone

SpecExport == ExportInit /\ [][ExportNext]_vars

\* C17: in the CSV text every row has its text fields (tasksNotes, wins,
\* challenges and the tags joined by ", ") wrapped in double quotes with
\* every double quote inside the field doubled.
C17_TextFieldsQuoted ==
    LET ClaimedCell(text) == <<Quote>> \o DoubleQuotes(text) \o <<Quote>>
        FieldText(r, name) == IF Has(r, name) THEN r[name] ELSE <<>>
        ClaimedRow(r) ==
            <<NumberText(r.date), NumberText(r.plannedTasks),
              NumberText(r.completedTasks),
              ClaimedCell(FieldText(r, "tasksNotes")), ClaimedCell(FieldText(r, "wins")),
              ClaimedCell(FieldText(r, "challenges")),
              NumberText(r.mood), NumberText(r.minutesFocused),
              ClaimedCell(Join(r.tags, <<Comma, 32>>)),
              IF Has(r, "createdAt") THEN NumberText(r.createdAt) ELSE <<>>>>
        lines == <<Join(Header, <<Comma>>)>>
                     \o [i \in 1..Len(exported.rows) |->
                            Join(ClaimedRow(exported.rows[i]), <<Comma>>)]
    IN  exported # NoFile => exported.text = Join(lines, <<LineFeed>>)

MaxRoundTrip == 2

\* the form is submitted with nothing but its text fields filled in
AddNotes ==
    /\ Len(entries) < MaxRoundTrip
    /\ \E texts \in TextInputs :
         entries' = addEntry(entries,
                        NewEntry(now, [getEmptyForm(now) EXCEPT
                                           !.tasksNotes = texts.tasksNotes,
                                           !.wins = texts.wins,
                                           !.challenges = texts.challenges,
                                           !.tags = texts.tags]))
    /\ UNCHANGED <<timeVars, habits, report, exported, cloudVars, codec, shellVars>>

RoundTripInit ==
    /\ now = HoursPerDay + 12
    /\ tz \in {z \in Zones : z.before = z.after}
    /\ entries \in {<<>>, <<PlainEntry(1, 0, 3, 2, 25)>>}
    /\ habits \in {<<>>, <<StoredHabit({0}, 0, tz)>>}
    /\ report = NoReport
    /\ exported = NoFile
    /\ ShellIdle
    /\ codec = CodecIdle
    /\ supabase = TRUE
    /\ user \in Users
    /\ passphrase \in Passphrases
    /\ cryptoKeyRef = deriveKey(passphrase, SaltOf(user))
    /\ derived = TRUE
    /\ derivations = {}
    /\ uploads = {}
    /\ downloads = {}
    /\ backups = [u \in Users |-> NoRow]
    /\ alert = ""

RoundTripNext ==
    \/ AddNotes
    \/ RemoveEntry
    \/ MarkHabitLocal
    \/ UploadBackup
    \/ UploadEncrypted
    \/ UploadDone
    \/ DownloadBackup
    \/ DownloadFetched
    \/ DownloadDecrypted

SpecRoundTrip == RoundTripInit /\ [][RoundTripNext]_vars

\* C20: when downloadBackup restores, with the key that encrypted it, the
\* row an uploadBackup of the same user wrote, entries and habits are
\* afterwards the entries and habits that uploadBackup was called with,
\* whatever was added, removed or marked since.
C20_RestoreGivesUploadedJournal ==
    [][\A d \in downloads :
           /\ d.pc = "decrypting"
           /\ d \notin downloads'
           /\ alert' = "Backup restored."
           /\ d.row.uploaded
           /\ d.key = d.row.key
           => /\ entries' = d.row.entries
              /\ habits' = d.row.habits]_vars

\* a backup of a journal with notes was uploaded while the journal went on
\* changing, and has just been restored over a different journal
C20_Witness ==
    /\ alert = "Backup restored."
    /\ uploads = {}
    /\ downloads = {}
    /\ backups[user].uploaded
    /\ backups[user].key = cryptoKeyRef
    /\ entries = backups[user].entries
    /\ habits = backups[user].habits
    /\ \E i \in 1..Len(entries) :
           Has(entries[i], "tasksNotes") /\ entries[i].tasksNotes # <<>>

====
